---- MODULE Spec2Model ----
(***************************************************************************)
(* A model of the Thompson NFA compiler (nfa/thompson/compiler.rs) and of  *)
(* the PikeVM (nfa/thompson/pikevm.rs) of regex-automata 0.2.0.            *)
(*                                                                         *)
(* State IDs are 0-based as in the source; a vector `v` of the source is a *)
(* sequence, and `v[i]` of the source is At(v, i) here.  An Option<T> is a *)
(* set with at most one element: None is {} and Some(x) is {x}.            *)
(***************************************************************************)
EXTENDS Integers, Sequences, FiniteSets, TLC

\* ------------------------------------------------------------ vocabulary

None == {}
Some(x) == {x}
IsSome(o) == o # {}
Unwrap(o) == CHOOSE x \in o : TRUE
UnwrapOr(o, d) == IF o = {} THEN d ELSE CHOOSE x \in o : TRUE

At(v, i) == v[i + 1]
SetAt(v, i, x) == [v EXCEPT ![i + 1] = x]
Reverse(s) == [i \in 1..Len(s) |-> s[Len(s) + 1 - i]]
Last(s) == s[Len(s)]
Front(s) == SubSeq(s, 1, Len(s) - 1)
Repeat(x, n) == [i \in 1..n |-> x]
RangeOf(seq) == {seq[i] : i \in 1..Len(seq)}

RECURSIVE SumSeq(_)
SumSeq(s) == IF s = <<>> THEN 0 ELSE Head(s) + SumSeq(Tail(s))

\* ------------------------------------------------- the syntax tree (Hir)

HirEmpty == [kind |-> "Empty"]
HirByte(b) == [kind |-> "Literal", unicode |-> FALSE, v |-> b]
HirChar(ch) == [kind |-> "Literal", unicode |-> TRUE, v |-> ch]
HirClassBytes(ranges) == [kind |-> "ClassBytes", ranges |-> ranges]
HirClassUnicode(ranges) == [kind |-> "ClassUnicode", ranges |-> ranges]
HirAnchor(a) == [kind |-> "Anchor", anchor |-> a]
HirWordBoundary(w) == [kind |-> "WordBoundary", wb |-> w]
HirRepetition(rk, greedy, e) ==
    [kind |-> "Repetition", rep |-> rk, greedy |-> greedy, hir |-> e]
HirGroup(gk, e) == [kind |-> "Group", group |-> gk, hir |-> e]
HirConcat(es) == [kind |-> "Concat", es |-> es]
HirAlternation(es) == [kind |-> "Alternation", es |-> es]

ZeroOrOne == [t |-> "ZeroOrOne"]
ZeroOrMore == [t |-> "ZeroOrMore"]
OneOrMore == [t |-> "OneOrMore"]
Exactly(n) == [t |-> "Exactly", n |-> n]
AtLeast(n) == [t |-> "AtLeast", n |-> n]
Bounded(min, max) == [t |-> "Bounded", min |-> min, max |-> max]

NonCapturing == [t |-> "NonCapturing"]
CaptureIndex(i) == [t |-> "CaptureIndex", index |-> i]

\* Hir::any(true): the class of every byte.
HirAnyByte == HirClassBytes(<<[start |-> 0, end |-> 255]>>)
\* Hir::any(false): the class of every Unicode scalar value.
HirAnyChar == HirClassUnicode(<<[start |-> 0, end |-> 1114111]>>)

\* RepetitionKind/RepetitionRange: whether zero repetitions are allowed.
RepIsMatchEmpty(rk) ==
    CASE rk.t = "ZeroOrOne" -> TRUE
      [] rk.t = "ZeroOrMore" -> TRUE
      [] rk.t = "OneOrMore" -> FALSE
      [] rk.t = "Exactly" -> rk.n = 0
      [] rk.t = "AtLeast" -> rk.n = 0
      [] rk.t = "Bounded" -> rk.min = 0

RECURSIVE IsMatchEmpty(_)
IsMatchEmpty(e) ==
    CASE e.kind = "Empty" -> TRUE
      [] e.kind = "Literal" -> FALSE
      [] e.kind = "ClassBytes" -> FALSE
      [] e.kind = "ClassUnicode" -> FALSE
      [] e.kind = "Anchor" -> TRUE
      [] e.kind = "WordBoundary" ->
            e.wb \in {"UnicodeNegate", "AsciiNegate"}
      [] e.kind = "Repetition" ->
            RepIsMatchEmpty(e.rep) \/ IsMatchEmpty(e.hir)
      [] e.kind = "Group" -> IsMatchEmpty(e.hir)
      [] e.kind = "Concat" ->
            \A i \in 1..Len(e.es) : IsMatchEmpty(e.es[i])
      [] e.kind = "Alternation" ->
            \E i \in 1..Len(e.es) : IsMatchEmpty(e.es[i])

RECURSIVE IsAllAssertions(_)
IsAllAssertions(e) ==
    CASE e.kind = "Empty" -> TRUE
      [] e.kind = "Anchor" -> TRUE
      [] e.kind = "WordBoundary" -> TRUE
      [] e.kind = "Repetition" -> IsAllAssertions(e.hir)
      [] e.kind = "Group" -> IsAllAssertions(e.hir)
      [] e.kind = "Concat" ->
            \A i \in 1..Len(e.es) : IsAllAssertions(e.es[i])
      [] e.kind = "Alternation" ->
            \A i \in 1..Len(e.es) : IsAllAssertions(e.es[i])
      [] OTHER -> FALSE

RECURSIVE IsAnchoredStart(_)
IsAnchoredStart(e) ==
    CASE e.kind = "Anchor" -> e.anchor = "StartText"
      [] e.kind = "Repetition" ->
            ~RepIsMatchEmpty(e.rep) /\ IsAnchoredStart(e.hir)
      [] e.kind = "Group" -> IsAnchoredStart(e.hir)
      [] e.kind = "Concat" ->
            \E i \in 1..Len(e.es) :
                /\ IsAnchoredStart(e.es[i])
                /\ \A j \in 1..(i - 1) : IsAllAssertions(e.es[j])
      [] e.kind = "Alternation" ->
            \A i \in 1..Len(e.es) : IsAnchoredStart(e.es[i])
      [] OTHER -> FALSE

\* char::encode_utf8: the bytes of the UTF-8 encoding of a scalar value.
EncodeUtf8(ch) ==
    IF ch < 128 THEN <<ch>>
    ELSE IF ch < 2048 THEN <<192 + (ch \div 64), 128 + (ch % 64)>>
    ELSE IF ch < 65536 THEN
        <<224 + (ch \div 4096), 128 + ((ch \div 64) % 64), 128 + (ch % 64)>>
    ELSE <<240 + (ch \div 262144), 128 + ((ch \div 4096) % 64),
           128 + ((ch \div 64) % 64), 128 + (ch % 64)>>

\* ------------------------------------- regex_syntax::utf8::Utf8Sequences

\* A range of bytes of a Utf8Sequence, and a range of scalar values.
Utf8Range(start, end) == [start |-> start, end |-> end]
ScalarRange(start, end) == [start |-> start, end |-> end]

\* max_scalar_value(nbytes): the greatest scalar encoded in nbytes bytes.
MaxScalarValue(nbytes) ==
    CASE nbytes = 1 -> 127
      [] nbytes = 2 -> 2047
      [] nbytes = 3 -> 65535
      [] OTHER -> 1114111

\* `(1 << (6 * i)) - 1`: the mask of the low 6 * i bits, and the three bit
\* operations the iterator does with it.
ContMask(i) == (64 ^ i) - 1
AndNot(x, mask) == (x \div (mask + 1)) * (mask + 1)
And(x, mask) == x % (mask + 1)
Or(x, mask) == AndNot(x, mask) + mask

\* ScalarRange::encode into Utf8Sequence::from_encoded_range: the byte
\* ranges between the encodings of the two ends, which have one length.
Utf8SequenceOf(r) ==
    LET start == EncodeUtf8(r.start)
        end == EncodeUtf8(r.end)
    IN [i \in 1..Len(start) |-> Utf8Range(start[i], end[i])]

\* The first i of `for i in 1..MAX_UTF8_BYTES` for which P(i) holds.
FirstOf(P(_)) ==
    IF P(1) THEN Some(1) ELSE IF P(2) THEN Some(2) ELSE IF P(3) THEN Some(3)
    ELSE None

\* Iterator::next of Utf8Sequences, run to the end: the sequences still to
\* come from the stack of ranges, in the order they are yielded.  The range
\* r is the one popped and being split ('INNER), None when the next one
\* has to be popped ('OUTER).
RECURSIVE Utf8SequencesFrom(_, _)
Utf8SequencesFrom(stack, popped) ==
    IF popped = None
    THEN IF stack = <<>> THEN <<>>
         ELSE Utf8SequencesFrom(Front(stack), Some(Last(stack)))
    ELSE LET r == Unwrap(popped)
             Straddles(i) ==
                 r.start <= MaxScalarValue(i) /\ MaxScalarValue(i) < r.end
             Differs(i) ==
                 /\ AndNot(r.start, ContMask(i)) # AndNot(r.end, ContMask(i))
                 /\ \/ And(r.start, ContMask(i)) # 0
                    \/ And(r.end, ContMask(i)) # ContMask(i)
             Split(low, high) ==
                 Utf8SequencesFrom(Append(stack, high), Some(low))
             SplitAtLength(i) ==
                 Split(ScalarRange(r.start, MaxScalarValue(i)),
                       ScalarRange(MaxScalarValue(i) + 1, r.end))
             SplitAtMask(m) ==
                 IF And(r.start, m) # 0
                 THEN Split(ScalarRange(r.start, Or(r.start, m)),
                            ScalarRange(Or(r.start, m) + 1, r.end))
                 ELSE Split(ScalarRange(r.start, AndNot(r.end, m) - 1),
                            ScalarRange(AndNot(r.end, m), r.end))
         IN IF r.start < 57344 /\ r.end > 55295
            THEN Split(ScalarRange(r.start, 55295), ScalarRange(57344, r.end))
            ELSE IF r.start > r.end THEN Utf8SequencesFrom(stack, None)
            ELSE IF FirstOf(Straddles) # None
            THEN SplitAtLength(Unwrap(FirstOf(Straddles)))
            ELSE IF r.end <= 127
            THEN <<<<Utf8Range(r.start, r.end)>>>>
                     \o Utf8SequencesFrom(stack, None)
            ELSE IF FirstOf(Differs) # None
            THEN SplitAtMask(ContMask(Unwrap(FirstOf(Differs))))
            ELSE <<Utf8SequenceOf(r)>> \o Utf8SequencesFrom(stack, None)

\* Utf8Sequences::new(start, end), collected.
Utf8Sequences(start, end) ==
    Utf8SequencesFrom(<<ScalarRange(start, end)>>, None)

\* ----------------------------------------------- compiler configuration

\* thompson::Config: every field is an Option, None when not set.
ConfigDefault ==
    [reverse |-> None, utf8 |-> None, nfa_size_limit |-> None,
     shrink |-> None, captures |-> None, unanchored_prefix |-> None]

GetReverse(cfg) == UnwrapOr(cfg.reverse, FALSE)
GetUtf8(cfg) == UnwrapOr(cfg.utf8, TRUE)
GetNfaSizeLimit(cfg) == UnwrapOr(cfg.nfa_size_limit, None)
GetShrink(cfg) == UnwrapOr(cfg.shrink, TRUE)
\* A variant of get_captures that does not look at reverse.
GetCapturesIgnoringReverse(cfg) == UnwrapOr(cfg.captures, TRUE)

GetCaptures(cfg) == ~GetReverse(cfg) /\ UnwrapOr(cfg.captures, TRUE)
GetUnanchoredPrefix(cfg) == UnwrapOr(cfg.unanchored_prefix, TRUE)

\* ------------------------------------------- intermediate states (CState)

Transition(start, end, next) == [start |-> start, end |-> end, next |-> next]

CEmpty(next) == [k |-> "Empty", next |-> next]
CCaptureStart(next, ci) ==
    [k |-> "CaptureStart", next |-> next, capture_index |-> ci]
CCaptureEnd(next, ci) ==
    [k |-> "CaptureEnd", next |-> next, capture_index |-> ci]
CRange(t) == [k |-> "Range", range |-> t]
CSparse(ranges) == [k |-> "Sparse", ranges |-> ranges]
CLook(look, next) == [k |-> "Look", look |-> look, next |-> next]
CUnion(alts) == [k |-> "Union", alternates |-> alts]
CUnionReverse(alts) == [k |-> "UnionReverse", alternates |-> alts]
CMatch(pid, start_id) ==
    [k |-> "Match", pattern_id |-> pid, start_id |-> start_id]

\* mem::size_of of StateID, Transition and CState on a 64-bit target.
SizeOfStateID == 4
SizeOfTransition == 8
SizeOfCState == 32

\* CState::memory_usage
MemoryUsage(s) ==
    CASE s.k = "Sparse" -> Len(s.ranges) * SizeOfTransition
      [] s.k = "Union" -> Len(s.alternates) * SizeOfStateID
      [] s.k = "UnionReverse" -> Len(s.alternates) * SizeOfStateID
      [] OTHER -> 0

\* NFA::empty(): no states, no patterns.  patterns_to_slots[pid] is the range
\* of capture slots of pattern pid, two slots per capturing group.
NfaEmpty ==
    [states |-> <<>>, start_anchored |-> 0, start_unanchored |-> 0,
     start_pattern |-> <<>>, patterns_to_slots |-> <<>>]

\* The compiler: its configuration, the intermediate states, the heap used
\* by them, and the error that ended the compilation ("ok" while none did).
\* Every operation is skipped once an error is recorded: the source leaves
\* with `?` at that point.
NewCompiler(cfg) ==
    [config |-> cfg, states |-> <<>>, memory_cstates |-> 0, remap |-> <<>>,
     empties |-> <<>>, nfa |-> NfaEmpty, err |-> "ok"]

\* NFA::clear
NfaClear(nfa) == NfaEmpty

\* A variant of configure that leaves the intermediate states of the
\* compilation before.
ConfigureKeepStates(c, cfg) == [c EXCEPT !.config = cfg, !.err = "ok"]

\* Compiler::configure: the new configuration; the automaton, the
\* intermediate states and their heap usage are cleared, the remap table
\* and the empties are left as they are.  (err is the Result of the call
\* in flight: a new call starts without one.)
Configure(c, cfg) ==
    [c EXCEPT !.config = cfg, !.nfa = NfaClear(@), !.states = <<>>,
              !.memory_cstates = 0, !.err = "ok"]

NfaMemoryUsage(c) == Len(c.states) * SizeOfCState + c.memory_cstates

\* A variant of the check below that also fails at the limit itself.
CheckNfaSizeLimitAtLimit(c) ==
    LET limit == GetNfaSizeLimit(c.config)
    IN IF IsSome(limit) /\ NfaMemoryUsage(c) >= Unwrap(limit)
       THEN [c EXCEPT !.err = "exceeded_size_limit"]
       ELSE c

CheckNfaSizeLimit(c) ==
    LET limit == GetNfaSizeLimit(c.config)
    IN IF IsSome(limit) /\ NfaMemoryUsage(c) > Unwrap(limit)
       THEN [c EXCEPT !.err = "exceeded_size_limit"]
       ELSE c

\* add_state returns the ID of the state added: the length before the push.
AddState(c, s) ==
    IF c.err # "ok" THEN c
    ELSE CheckNfaSizeLimit(
             [c EXCEPT !.states = Append(@, s),
                       !.memory_cstates = @ + MemoryUsage(s)])

NextId(c) == Len(c.states)

LookReversed(look) ==
    CASE look = "StartLine" -> "EndLine"
      [] look = "EndLine" -> "StartLine"
      [] look = "StartText" -> "EndText"
      [] look = "EndText" -> "StartText"
      [] OTHER -> look

AddEmpty(c) == AddState(c, CEmpty(0))
AddCaptureStart(c, ci) == AddState(c, CCaptureStart(0, ci))
AddCaptureEnd(c, ci) == AddState(c, CCaptureEnd(0, ci))
AddRange(c, start, end) == AddState(c, CRange(Transition(start, end, 0)))
AddSparse(c, ranges) ==
    IF Len(ranges) = 1 THEN AddState(c, CRange(ranges[1]))
    ELSE AddState(c, CSparse(ranges))
AddLook(c, look) ==
    AddState(c, CLook(IF GetReverse(c.config) THEN LookReversed(look)
                       ELSE look, 0))
\* Variants of the three operations below, each with one plausible slip:
\* a Union that is added as a UnionReverse, a UnionReverse that is added as
\* a Union, and a Match state that is added as an Empty state.
AddUnionAsReverse(c) == AddState(c, CUnionReverse(<<>>))
AddReverseUnionAsUnion(c) == AddState(c, CUnion(<<>>))
AddMatchAsEmpty(c, pid, start_id) == AddState(c, CEmpty(0))
\* A Match state that is added with itself as the start of its pattern.
AddMatchOwnStart(c, pid, start_id) == AddState(c, CMatch(pid, Len(c.states)))

AddUnion(c) == AddState(c, CUnion(<<>>))
AddReverseUnion(c) == AddState(c, CUnionReverse(<<>>))
AddMatch(c, pid, start_id) == AddState(c, CMatch(pid, start_id))

\* A variant of patch that leaves an Empty source as it is, as it leaves a
\* Match source.
PatchLeavesEmpty(c, from, to) ==
    IF c.err # "ok" THEN c
    ELSE LET s == At(c.states, from)
         IN CASE s.k \in {"Look", "CaptureStart", "CaptureEnd"} ->
                    [c EXCEPT !.states = SetAt(@, from, [s EXCEPT !.next = to])]
              [] s.k = "Range" ->
                    [c EXCEPT !.states =
                         SetAt(@, from, [s EXCEPT !.range.next = to])]
              [] s.k = "Sparse" -> [c EXCEPT !.err = "panic"]
              [] s.k \in {"Union", "UnionReverse"} ->
                    CheckNfaSizeLimit(
                        [c EXCEPT !.states =
                             SetAt(@, from,
                                   [s EXCEPT !.alternates = Append(@, to)]),
                                  !.memory_cstates = @ + SizeOfStateID])
              [] s.k \in {"Empty", "Match"} -> c

Patch(c, from, to) ==
    IF c.err # "ok" THEN c
    ELSE LET s == At(c.states, from)
         IN CASE s.k \in {"Empty", "Look", "CaptureStart", "CaptureEnd"} ->
                    [c EXCEPT !.states = SetAt(@, from, [s EXCEPT !.next = to])]
              [] s.k = "Range" ->
                    [c EXCEPT !.states =
                         SetAt(@, from, [s EXCEPT !.range.next = to])]
              [] s.k = "Sparse" -> [c EXCEPT !.err = "panic"]
              [] s.k \in {"Union", "UnionReverse"} ->
                    CheckNfaSizeLimit(
                        [c EXCEPT !.states =
                             SetAt(@, from,
                                   [s EXCEPT !.alternates = Append(@, to)]),
                                  !.memory_cstates = @ + SizeOfStateID])
              [] s.k = "Match" -> c

\* A ThompsonRef together with the compiler after building it.
Ref(c, start, end) == [c |-> c, start |-> start, end |-> end]

\* ------------------------------------------------ the tree-walk compiler

\* The items of the iterators handed to c_concat and c_alternation: each is
\* compiled when the iterator is advanced.
ItemHir(e) == [t |-> "hir", e |-> e]
ItemRange(b) == [t |-> "range", b |-> b]
ItemPattern(pid, e) == [t |-> "pattern", pid |-> pid, e |-> e]

CEmptyRef(c) == Ref(AddEmpty(c), NextId(c), NextId(c))
CRangeRef(c, start, end) == Ref(AddRange(c, start, end), NextId(c), NextId(c))

CAnchor(c, anchor) == Ref(AddLook(c, anchor), NextId(c), NextId(c))

CWordBoundary(c, wb) ==
    LET look == CASE wb = "Unicode" -> "WordBoundaryUnicode"
                  [] wb = "UnicodeNegate" -> "WordBoundaryUnicodeNegate"
                  [] wb = "Ascii" -> "WordBoundaryAscii"
                  [] wb = "AsciiNegate" -> "WordBoundaryAsciiNegate"
    IN Ref(AddLook(c, look), NextId(c), NextId(c))

\* A variant that hands out the Sparse state itself as the end of the
\* fragment.
CByteClassEndAtSparse(c, ranges) ==
    LET end == NextId(c)
        c1 == AddEmpty(c)
        trans == [i \in 1..Len(ranges) |->
                     Transition(ranges[i].start, ranges[i].end, end)]
    IN Ref(AddSparse(c1, trans), NextId(c1), NextId(c1))

CByteClass(c, ranges) ==
    LET end == NextId(c)
        c1 == AddEmpty(c)
        trans == [i \in 1..Len(ranges) |->
                     Transition(ranges[i].start, ranges[i].end, end)]
    IN Ref(AddSparse(c1, trans), NextId(c1), end)

IsAllAscii(ranges) == \A i \in 1..Len(ranges) : ranges[i].end <= 127

\* ------------------------------------------------------- Utf8Compiler

\* Utf8Node, and Utf8Node::set_last_transition.
Utf8Node(trans, last) == [trans |-> trans, last |-> last]

SetLastTransition(node, next) ==
    IF IsSome(node.last)
    THEN Utf8Node(Append(node.trans,
                      Transition(Unwrap(node.last).start,
                                 Unwrap(node.last).end, next)),
                  None)
    ELSE node

\* Utf8BoundedMap, as the pairs <<node, id>> that were set: `get` finds
\* the id a node was set to.
MapGet(compiled, key) ==
    IF \E i \in 1..Len(compiled) : compiled[i][1] = key
    THEN Some(compiled[CHOOSE i \in 1..Len(compiled) : compiled[i][1] = key][2])
    ELSE None

MapSet(compiled, key, id) ==
    IF \E i \in 1..Len(compiled) : compiled[i][1] = key
    THEN [i \in 1..Len(compiled) |->
             IF compiled[i][1] = key THEN <<key, id>> ELSE compiled[i]]
    ELSE Append(compiled, <<key, id>>)

\* The Utf8Compiler with the compiler it adds states to and its Utf8State.
Utf8C(c, compiled, uncompiled, target) ==
    [c |-> c, compiled |-> compiled, uncompiled |-> uncompiled,
     target |-> target]

\* Utf8Compiler::new: the target state, cleared state, one empty node.
Utf8New(c) ==
    Utf8C(AddEmpty(c), <<>>, <<Utf8Node(<<>>, None)>>, NextId(c))

\* Utf8Compiler::compile: the compiler after it and the ID of the node.
Utf8Compile(u, node) ==
    LET found == MapGet(u.compiled, node)
    IN IF IsSome(found) THEN [u |-> u, id |-> Unwrap(found)]
       ELSE [u |-> [u EXCEPT !.c = AddSparse(u.c, node),
                             !.compiled = MapSet(@, node, NextId(u.c))],
             id |-> NextId(u.c)]

\* Utf8Compiler::compile_from, from its `while` on, with `next` so far.
RECURSIVE Utf8CompileFromLoop(_, _, _)
Utf8CompileFromLoop(u, from, next) ==
    IF from + 1 < Len(u.uncompiled)
    THEN LET Then(r) == Utf8CompileFromLoop(r.u, from, r.id)
         IN Then(Utf8Compile([u EXCEPT !.uncompiled = Front(@)],
                             SetLastTransition(Last(u.uncompiled), next).trans))
    ELSE [u EXCEPT !.uncompiled[Len(u.uncompiled)] =
             SetLastTransition(@, next)]

Utf8CompileFrom(u, from) == Utf8CompileFromLoop(u, from, u.target)

\* A variant of the count below that never finds a common prefix.
Utf8PrefixLenNone(ranges, uncompiled, i) == 0

\* The count of the `take_while` of Utf8Compiler::add: how many of the
\* first ranges are the last transitions of the uncompiled nodes.
RECURSIVE Utf8PrefixLen(_, _, _)
Utf8PrefixLen(ranges, uncompiled, i) ==
    IF /\ i < Len(ranges)
       /\ i < Len(uncompiled)
       /\ uncompiled[i + 1].last = Some(ranges[i + 1])
    THEN Utf8PrefixLen(ranges, uncompiled, i + 1)
    ELSE i

\* Utf8Compiler::add_suffix
Utf8AddSuffix(u, ranges) ==
    LET last == Len(u.uncompiled)
        marked == [u.uncompiled EXCEPT ![last].last = Some(ranges[1])]
    IN [u EXCEPT !.uncompiled =
           marked \o [i \in 1..(Len(ranges) - 1) |->
                         Utf8Node(<<>>, Some(ranges[i + 1]))]]

\* A variant of add that returns, where the assertion fails, without
\* adding the sequence.
Utf8AddUnasserted(u, ranges) ==
    LET prefix_len == Utf8PrefixLen(ranges, u.uncompiled, 0)
        AddSuffix(v) ==
            Utf8AddSuffix(v, SubSeq(ranges, prefix_len + 1, Len(ranges)))
    IN IF u.c.err # "ok" \/ prefix_len >= Len(ranges) THEN u
       ELSE AddSuffix(Utf8CompileFrom(u, prefix_len))

\* Utf8Compiler::add: the assertion fails for a sequence that is a prefix
\* of the one before it.
Utf8Add(u, ranges) ==
    LET prefix_len == Utf8PrefixLen(ranges, u.uncompiled, 0)
        AddSuffix(v) ==
            Utf8AddSuffix(v, SubSeq(ranges, prefix_len + 1, Len(ranges)))
    IN IF u.c.err # "ok" THEN u
       ELSE IF prefix_len >= Len(ranges) THEN [u EXCEPT !.c.err = "panic"]
       ELSE AddSuffix(Utf8CompileFrom(u, prefix_len))

\* Utf8Compiler::finish
Utf8Finish(u) ==
    LET Then(v) ==
            LET Compiled(r) == Ref(r.u.c, r.id, v.target)
            IN Compiled(Utf8Compile([v EXCEPT !.uncompiled = <<>>],
                                    v.uncompiled[1].trans))
    IN Then(Utf8CompileFrom(u, 0))

\* `for seq in Utf8Sequences::new(..) { utf8c.add(seq.as_slice())? }`
RECURSIVE Utf8AddAll(_, _)
Utf8AddAll(u, seqs) ==
    IF seqs = <<>> THEN u
    ELSE Utf8AddAll(Utf8Add(u, Head(seqs)), Tail(seqs))

\* `for rng in cls.iter()` around it.
RECURSIVE Utf8AddRanges(_, _)
Utf8AddRanges(u, ranges) ==
    IF ranges = <<>> THEN u
    ELSE Utf8AddRanges(
             Utf8AddAll(u, Utf8Sequences(Head(ranges).start, Head(ranges).end)),
             Tail(ranges))

\* c_unicode_class_reverse_with_suffix: `for brng in seq.as_slice()`, with
\* the Utf8SuffixMap as the pairs that were set and `end` so far.
Suffix(c, cache, end) == [c |-> c, cache |-> cache, end |-> end]

RECURSIVE SuffixOfSequence(_, _)
SuffixOfSequence(sf, seq) ==
    IF seq = <<>> THEN sf
    ELSE LET key == <<sf.end, Head(seq).start, Head(seq).end>>
             found == MapGet(sf.cache, key)
             Then(compiled) ==
                 Suffix(Patch(compiled.c, compiled.end, sf.end),
                        MapSet(sf.cache, key, compiled.start), compiled.start)
         IN IF IsSome(found)
            THEN SuffixOfSequence([sf EXCEPT !.end = Unwrap(found)], Tail(seq))
            ELSE SuffixOfSequence(
                     Then(CRangeRef(sf.c, Head(seq).start, Head(seq).end)),
                     Tail(seq))

\* `for seq in Utf8Sequences::new(..)`: every sequence starts again from
\* alt_end and its first state is patched into the union.
RECURSIVE SuffixOfSequences(_, _, _, _)
SuffixOfSequences(sf, seqs, union, alt_end) ==
    IF seqs = <<>> THEN sf
    ELSE LET Then(done) ==
                 SuffixOfSequences([done EXCEPT !.c = Patch(@, union, done.end)],
                                   Tail(seqs), union, alt_end)
         IN Then(SuffixOfSequence([sf EXCEPT !.end = alt_end], Head(seqs)))

RECURSIVE SuffixOfRanges(_, _, _, _)
SuffixOfRanges(sf, ranges, union, alt_end) ==
    IF ranges = <<>> THEN sf
    ELSE SuffixOfRanges(
             SuffixOfSequences(sf,
                 Utf8Sequences(Head(ranges).start, Head(ranges).end),
                 union, alt_end),
             Tail(ranges), union, alt_end)

CUnicodeClassReverseWithSuffix(c, ranges) ==
    LET union == NextId(c)
        alt_end == NextId(c) + 1
    IN Ref(SuffixOfRanges(Suffix(AddEmpty(AddUnion(c)), <<>>, alt_end),
                          ranges, union, alt_end).c,
           union, alt_end)

\* RangeTrie: the sequences inserted, as a set, are given back in their
\* order, with the ranges that overlap at a place split at each other's
\* ends, so that two sequences given back have at every place the same
\* range or ranges that do not meet.

\* The ranges between the ends of the first ranges of the sequences, each
\* within one of them.
TrieRanges(seqs) ==
    LET cuts == {Head(q).start : q \in seqs} \cup {Head(q).end + 1 : q \in seqs}
    IN {r \in {Utf8Range(lo, hi - 1) : lo \in cuts, hi \in cuts} :
           /\ r.start <= r.end
           /\ \A cut \in cuts : ~(r.start < cut /\ cut <= r.end)
           /\ \E q \in seqs : Head(q).start <= r.start /\ r.end <= Head(q).end}

\* RangeTrie::iter over the sequences below the ranges of one node, taken
\* in their order.
RECURSIVE RangeTrieIter(_)
RECURSIVE RangeTrieLevel(_, _)
RangeTrieLevel(seqs, ranges) ==
    IF ranges = {} THEN <<>>
    ELSE LET r == CHOOSE x \in ranges : \A y \in ranges : x.start <= y.start
             below == {Tail(q) : q \in {x \in seqs : /\ Head(x).start <= r.start
                                                     /\ r.end <= Head(x).end}}
             rest == IF <<>> \in below THEN <<<<>>>>
                     ELSE RangeTrieIter(below)
         IN [i \in 1..Len(rest) |-> <<r>> \o rest[i]]
                \o RangeTrieLevel(seqs, ranges \ {r})

RangeTrieIter(seqs) == RangeTrieLevel(seqs, TrieRanges(seqs))

\* `for rng in cls.iter() { for mut seq in Utf8Sequences { seq.reverse();
\* trie.insert(..) } }`: the sequences inserted.
ReversedSequences(ranges) ==
    UNION {{Reverse(q) : q \in RangeOf(Utf8Sequences(ranges[i].start,
                                                     ranges[i].end))} :
              i \in 1..Len(ranges)}

\* Compiler::c_unicode_class
CUnicodeClass(c, ranges) ==
    CASE IsAllAscii(ranges) -> CByteClass(c, ranges)
      [] ~IsAllAscii(ranges) /\ ~GetReverse(c.config) ->
            Utf8Finish(Utf8AddRanges(Utf8New(c), ranges))
      [] ~IsAllAscii(ranges) /\ GetReverse(c.config) /\ ~GetShrink(c.config) ->
            CUnicodeClassReverseWithSuffix(c, ranges)
      [] ~IsAllAscii(ranges) /\ GetReverse(c.config) /\ GetShrink(c.config) ->
            Utf8Finish(Utf8AddAll(Utf8New(c),
                                  RangeTrieIter(ReversedSequences(ranges))))

RECURSIVE C(_, _)
RECURSIVE CItem(_, _)
RECURSIVE CConcat(_, _)
RECURSIVE CConcatLoop(_, _, _, _)
RECURSIVE CAlternation(_, _)
RECURSIVE CAlternationLoop(_, _, _, _)
RECURSIVE CGroup(_, _, _)
RECURSIVE CBoundedLoop(_, _, _, _, _, _)
RECURSIVE CBounded(_, _, _, _, _)
RECURSIVE CAtLeast(_, _, _, _)
RECURSIVE CZeroOrOne(_, _, _)
RECURSIVE CExactly(_, _, _)
RECURSIVE CRepetition(_, _)
RECURSIVE CPattern(_, _, _)
RECURSIVE CCompile(_, _)

\* A variant of c_char that compiles the bytes from the last to the first.
CCharBackwards(c, ch) ==
    LET bytes == Reverse(EncodeUtf8(ch))
    IN CConcat(c, [i \in 1..Len(bytes) |-> ItemRange(bytes[i])])

CChar(c, ch) ==
    LET bytes == EncodeUtf8(ch)
    IN CConcat(c, [i \in 1..Len(bytes) |-> ItemRange(bytes[i])])

\* A variant of the choice below that goes forwards in reverse too.
ConcatNextForward(c, items) == Head(items)

\* Iterator::next (next_back when compiling in reverse) of c_concat.
ConcatNext(c, items) == IF GetReverse(c.config) THEN Last(items) ELSE Head(items)
ConcatRest(c, items) == IF GetReverse(c.config) THEN Front(items) ELSE Tail(items)

\* In the operators below a compiled fragment is handed on as the argument
\* of a local operator, which then stands for the `let` of the source.

CConcatLoop(c, items, start, end) ==
    IF items = <<>> THEN Ref(c, start, end)
    ELSE LET Then(compiled) ==
                 CConcatLoop(Patch(compiled.c, end, compiled.start),
                             ConcatRest(c, items), start, compiled.end)
         IN Then(CItem(c, ConcatNext(c, items)))

CConcat(c, items) ==
    IF items = <<>> THEN CEmptyRef(c)
    ELSE LET Then(first) ==
                 CConcatLoop(first.c, ConcatRest(c, items), first.start,
                             first.end)
         IN Then(CItem(c, ConcatNext(c, items)))

CAlternationLoop(c, items, union, end) ==
    IF items = <<>> THEN Ref(c, union, end)
    ELSE LET Then(compiled) ==
                 CAlternationLoop(
                     Patch(Patch(compiled.c, union, compiled.start),
                           compiled.end, end),
                     Tail(items), union, end)
         IN Then(CItem(c, Head(items)))

CAlternation(c, items) ==
    LET AfterSecond(first, second) ==
            LET union == NextId(second.c)
                c1 == AddUnion(second.c)
                end == NextId(c1)
                c2 == AddEmpty(c1)
                c3 == Patch(c2, union, first.start)
                c4 == Patch(c3, first.end, end)
                c5 == Patch(c4, union, second.start)
                c6 == Patch(c5, second.end, end)
            IN CAlternationLoop(c6, SubSeq(items, 3, Len(items)), union, end)
        AfterFirst(first) ==
            IF Len(items) = 1 THEN first
            ELSE AfterSecond(first, CItem(first.c, items[2]))
    IN AfterFirst(CItem(c, items[1]))

CGroup(c, kind, expr) ==
    IF ~GetCaptures(c.config) THEN C(c, expr)
    ELSE IF kind.t = "NonCapturing" THEN C(c, expr)
    ELSE LET capi == kind.index
             Then(start, inner) ==
                 LET end == NextId(inner.c)
                     c2 == AddCaptureEnd(inner.c, capi)
                     c3 == Patch(c2, start, inner.start)
                     c4 == Patch(c3, inner.end, end)
                 IN Ref(c4, start, end)
         IN Then(NextId(c), C(AddCaptureStart(c, capi), expr))

\* A variant of the choice below that ignores the flag.
AddGreedyUnionAlways(c, greedy) == AddUnion(c)

\* A variant of the choice below with the two kinds of Union exchanged.
AddGreedyUnionExchanged(c, greedy) ==
    IF greedy THEN AddReverseUnion(c) ELSE AddUnion(c)

AddGreedyUnion(c, greedy) == IF greedy THEN AddUnion(c) ELSE AddReverseUnion(c)

\* `for _ in min..max` of c_bounded with n passes left; the result carries
\* the last prev_end as its `start`.
CBoundedLoop(c, expr, greedy, n, empty, prev_end) ==
    IF n <= 0 THEN Ref(c, prev_end, empty)
    ELSE LET Then(union, compiled) ==
                 LET c2 == Patch(compiled.c, prev_end, union)
                     c3 == Patch(c2, union, compiled.start)
                     c4 == Patch(c3, union, empty)
                 IN CBoundedLoop(c4, expr, greedy, n - 1, empty, compiled.end)
         IN Then(NextId(c), C(AddGreedyUnion(c, greedy), expr))

\* A variant of c_bounded that compiles x{min,max} as min copies of x and
\* a concatenation of max - min x?.
CBoundedAsOptions(c, expr, greedy, min, max) ==
    CConcat(c, Repeat(ItemHir(expr), min)
                   \o Repeat(ItemHir(HirRepetition(ZeroOrOne, greedy, expr)),
                             max - min))

\* A variant of c_bounded that forgets the upper bound.
CBoundedWithoutMax(c, expr, greedy, min, max) == CAtLeast(c, expr, greedy, min)

CBounded(c, expr, greedy, min, max) ==
    LET AfterLoop(prefix_start, empty, loop) ==
            Ref(Patch(loop.c, loop.start, empty), prefix_start, empty)
        AfterPrefix(prefix) ==
            IF min = max THEN prefix
            ELSE AfterLoop(prefix.start, NextId(prefix.c),
                           CBoundedLoop(AddEmpty(prefix.c), expr, greedy,
                                        max - min, NextId(prefix.c), prefix.end))
    IN AfterPrefix(CExactly(c, expr, min))

\* A variant of c_at_least without the loop.
CAtLeastWithoutLoop(c, expr, greedy, n) == CExactly(c, expr, n)

\* A variant of c_at_least that compiles every x* as one union that loops
\* on the body.
CAtLeastNaive(c, expr, greedy, n) ==
    LET Star(union, compiled) ==
            LET c2 == Patch(compiled.c, union, compiled.start)
                c3 == Patch(c2, compiled.end, union)
            IN Ref(c3, union, union)
        Plus(compiled) ==
            LET union == NextId(compiled.c)
                c1 == AddGreedyUnion(compiled.c, greedy)
                c2 == Patch(c1, compiled.end, union)
                c3 == Patch(c2, union, compiled.start)
            IN Ref(c3, compiled.start, union)
        AfterLast(prefix, last) ==
            LET union == NextId(last.c)
                c1 == AddGreedyUnion(last.c, greedy)
                c2 == Patch(c1, prefix.end, last.start)
                c3 == Patch(c2, last.end, union)
                c4 == Patch(c3, union, last.start)
            IN Ref(c4, prefix.start, union)
        AfterPrefix(prefix) == AfterLast(prefix, C(prefix.c, expr))
    IN IF n = 0 THEN
           Star(NextId(c), C(AddGreedyUnion(c, greedy), expr))
       ELSE IF n = 1 THEN Plus(C(c, expr))
       ELSE AfterPrefix(CExactly(c, expr, n - 1))

CAtLeast(c, expr, greedy, n) ==
    LET Star(union, compiled) ==
            LET c2 == Patch(compiled.c, union, compiled.start)
                c3 == Patch(c2, compiled.end, union)
            IN Ref(c3, union, union)
        StarOfNullable(compiled) ==
            LET plus == NextId(compiled.c)
                c1 == AddGreedyUnion(compiled.c, greedy)
                c2 == Patch(c1, compiled.end, plus)
                c3 == Patch(c2, plus, compiled.start)
                question == NextId(c3)
                c4 == AddGreedyUnion(c3, greedy)
                empty == NextId(c4)
                c5 == AddEmpty(c4)
                c6 == Patch(c5, question, compiled.start)
                c7 == Patch(c6, question, empty)
                c8 == Patch(c7, plus, empty)
            IN Ref(c8, question, empty)
        Plus(compiled) ==
            LET union == NextId(compiled.c)
                c1 == AddGreedyUnion(compiled.c, greedy)
                c2 == Patch(c1, compiled.end, union)
                c3 == Patch(c2, union, compiled.start)
            IN Ref(c3, compiled.start, union)
        AfterLast(prefix, last) ==
            LET union == NextId(last.c)
                c1 == AddGreedyUnion(last.c, greedy)
                c2 == Patch(c1, prefix.end, last.start)
                c3 == Patch(c2, last.end, union)
                c4 == Patch(c3, union, last.start)
            IN Ref(c4, prefix.start, union)
        AfterPrefix(prefix) == AfterLast(prefix, C(prefix.c, expr))
    IN IF n = 0 THEN
           IF ~IsMatchEmpty(expr)
           THEN Star(NextId(c), C(AddGreedyUnion(c, greedy), expr))
           ELSE StarOfNullable(C(c, expr))
       ELSE IF n = 1 THEN Plus(C(c, expr))
       ELSE AfterPrefix(CExactly(c, expr, n - 1))

CZeroOrOne(c, expr, greedy) ==
    LET Then(union, compiled) ==
            LET empty == NextId(compiled.c)
                c2 == AddEmpty(compiled.c)
                c3 == Patch(c2, union, compiled.start)
                c4 == Patch(c3, union, empty)
                c5 == Patch(c4, compiled.end, empty)
            IN Ref(c5, union, empty)
    IN Then(NextId(c), C(AddGreedyUnion(c, greedy), expr))

\* A variant of c_exactly that is off by one copy.
CExactlyOneMore(c, expr, n) == CConcat(c, Repeat(ItemHir(expr), n + 1))

CExactly(c, expr, n) == CConcat(c, Repeat(ItemHir(expr), n))

CRepetition(c, e) ==
    CASE e.rep.t = "ZeroOrOne" -> CZeroOrOne(c, e.hir, e.greedy)
      [] e.rep.t = "ZeroOrMore" -> CAtLeast(c, e.hir, e.greedy, 0)
      [] e.rep.t = "OneOrMore" -> CAtLeast(c, e.hir, e.greedy, 1)
      [] e.rep.t = "Exactly" -> CExactly(c, e.hir, e.rep.n)
      [] e.rep.t = "AtLeast" -> CAtLeast(c, e.hir, e.greedy, e.rep.n)
      [] e.rep.t = "Bounded" ->
            CBounded(c, e.hir, e.greedy, e.rep.min, e.rep.max)

\* Compiler::c. The last arm is the root of the walk: the patterns handed
\* to compile, whose body (CCompile) calls back into the walk like every
\* other arm; entering it here keeps the operators one recursive family,
\* which is what bounds TLC's per-call-site bookkeeping of them.
C(c, e) ==
    CASE e.kind = "Empty" -> CEmptyRef(c)
      [] e.kind = "Literal" /\ e.unicode -> CChar(c, e.v)
      [] e.kind = "Literal" /\ ~e.unicode -> CRangeRef(c, e.v, e.v)
      [] e.kind = "ClassBytes" -> CByteClass(c, e.ranges)
      [] e.kind = "ClassUnicode" -> CUnicodeClass(c, e.ranges)
      [] e.kind = "Anchor" -> CAnchor(c, e.anchor)
      [] e.kind = "WordBoundary" -> CWordBoundary(c, e.wb)
      [] e.kind = "Repetition" -> CRepetition(c, e)
      [] e.kind = "Group" -> CGroup(c, e.group, e.hir)
      [] e.kind = "Concat" ->
            CConcat(c, [i \in 1..Len(e.es) |-> ItemHir(e.es[i])])
      [] e.kind = "Alternation" ->
            CAlternation(c, [i \in 1..Len(e.es) |-> ItemHir(e.es[i])])
      [] e.kind = "Patterns" -> CCompile(c, e.es)

\* The closure mapped over the patterns in Compiler::compile.
CPattern(c, pid, e) ==
    LET Then(one) ==
            LET match_state_id == NextId(one.c)
                c1 == AddMatch(one.c, pid, one.start)
                c2 == Patch(c1, one.end, match_state_id)
            IN Ref(c2, one.start, match_state_id)
    IN Then(CGroup(c, CaptureIndex(0), e))

CItem(c, item) ==
    CASE item.t = "hir" -> C(c, item.e)
      [] item.t = "range" -> CRangeRef(c, item.b, item.b)
      [] item.t = "pattern" -> CPattern(c, item.pid, item.e)

\* A variant of the prefix for valid UTF-8 that is a greedy loop.
CUnanchoredPrefixGreedy(c) == CAtLeast(c, HirAnyChar, TRUE, 0)

CUnanchoredPrefixInvalidUtf8(c) == CAtLeast(c, HirAnyByte, FALSE, 0)
CUnanchoredPrefixValidUtf8(c) == CAtLeast(c, HirAnyChar, FALSE, 0)

\* A variant of all_anchored that finds no pattern anchored.
AllAnchoredNever(exprs) == FALSE

AllAnchored(exprs) == \A i \in 1..Len(exprs) : IsAnchoredStart(exprs[i])

HirPatterns(exprs) == [kind |-> "Patterns", es |-> exprs]

\* Compiler::compile up to its call of finish: the compiler after the
\* patterns are compiled, and the two start states handed to finish.
CCompile(c, exprs) ==
    LET anchored == ~GetUnanchoredPrefix(c.config) \/ AllAnchored(exprs)
        AfterPatterns(unanchored_prefix, compiled) ==
            [c |-> Patch(compiled.c, unanchored_prefix.end, compiled.start),
             start_anchored |-> compiled.start,
             start_unanchored |-> unanchored_prefix.start]
        AfterPrefix(unanchored_prefix) ==
            IF unanchored_prefix.c.err # "ok"
            THEN [c |-> unanchored_prefix.c, start_anchored |-> 0,
                  start_unanchored |-> 0]
            ELSE AfterPatterns(unanchored_prefix,
                     CAlternation(unanchored_prefix.c,
                         [i \in 1..Len(exprs) |->
                             ItemPattern(i - 1, exprs[i])]))
    IN AfterPrefix(IF anchored THEN CEmptyRef(c)
                   ELSE IF GetUtf8(c.config)
                        THEN CUnanchoredPrefixValidUtf8(c)
                        ELSE CUnanchoredPrefixInvalidUtf8(c))

\* ------------------------------------------------- the final automaton

SRange(t) == [k |-> "Range", range |-> t]
SSparse(ranges) == [k |-> "Sparse", ranges |-> ranges]
SLook(look, next) == [k |-> "Look", look |-> look, next |-> next]
SUnion(alts) == [k |-> "Union", alternates |-> alts]
SCapture(next, slot) == [k |-> "Capture", next |-> next, slot |-> slot]
SMatch(id) == [k |-> "Match", id |-> id]
SFail == [k |-> "Fail"]

NfaAddState(nfa, s) == [nfa EXCEPT !.states = Append(@, s)]
NfaNextId(nfa) == Len(nfa.states)
CurrentPatternId(nfa) == Len(nfa.start_pattern)
CaptureSlotLen(nfa) ==
    IF nfa.patterns_to_slots = <<>> THEN 0
    ELSE Last(nfa.patterns_to_slots).end
PatternSlots(nfa, pid) == At(nfa.patterns_to_slots, pid)

\* NFA::add_capture_start: the slot is the pattern's first slot plus twice
\* the group index; a group seen for the first time widens the pattern's
\* slot range by two.
NfaAddCaptureStart(nfa, next, capture_index) ==
    LET pid == CurrentPatternId(nfa)
        base == CaptureSlotLen(nfa)
        p2s == IF pid >= Len(nfa.patterns_to_slots)
               THEN Append(nfa.patterns_to_slots,
                           [start |-> base, end |-> base])
               ELSE nfa.patterns_to_slots
        rng == At(p2s, pid)
        groups == (rng.end - rng.start) \div 2
        p2s1 == IF capture_index >= groups
                THEN SetAt(p2s, pid, [rng EXCEPT !.end = @ + 2])
                ELSE p2s
    IN NfaAddState([nfa EXCEPT !.patterns_to_slots = p2s1],
                   SCapture(next, rng.start + 2 * capture_index))

NfaAddCaptureEnd(nfa, next, capture_index) ==
    LET rng == At(nfa.patterns_to_slots, CurrentPatternId(nfa))
    IN NfaAddState(nfa, SCapture(next, rng.start + 2 * capture_index + 1))

\* NFA::add_match: the Match state of the pattern being built.
NfaAddMatch(nfa) == NfaAddState(nfa, SMatch(CurrentPatternId(nfa)))

NfaFinishPattern(nfa, start_id) ==
    [nfa EXCEPT !.start_pattern = Append(@, start_id)]

\* NFA::remap: every state ID held by the automaton goes through the table.
RemapState(s, remap) ==
    CASE s.k = "Range" -> [s EXCEPT !.range.next = At(remap, @)]
      [] s.k = "Sparse" ->
            [s EXCEPT !.ranges =
                 [i \in 1..Len(@) |-> [@[i] EXCEPT !.next = At(remap, @)]]]
      [] s.k \in {"Look", "Capture"} -> [s EXCEPT !.next = At(remap, @)]
      [] s.k = "Union" ->
            [s EXCEPT !.alternates = [i \in 1..Len(@) |-> At(remap, @[i])]]
      [] s.k \in {"Match", "Fail"} -> s

NfaRemap(nfa, remap) ==
    [nfa EXCEPT
        !.states = [i \in 1..Len(@) |-> RemapState(@[i], remap)],
        !.start_anchored = At(remap, @),
        !.start_unanchored = At(remap, @),
        !.start_pattern = [i \in 1..Len(@) |-> At(remap, @[i])]]

\* ------------------------------------------------------ Compiler::finish

\* Vec::resize(len, StateID::ZERO): entries kept from an earlier use stay.
Resize(v, n) == [i \in 1..n |-> IF i <= Len(v) THEN v[i] ELSE 0]

\* The first loop of finish over the intermediate states, from `sid` on.
RECURSIVE FinishStates(_, _, _, _, _)
FinishStates(bstates, sid, nfa, remap, empties) ==
    IF sid >= Len(bstates)
    THEN [nfa |-> nfa, remap |-> remap, empties |-> empties]
    ELSE LET b == At(bstates, sid)
             id == NfaNextId(nfa)
         IN CASE b.k = "Empty" ->
                    FinishStates(bstates, sid + 1, nfa, remap,
                                 Append(empties, <<sid, b.next>>))
              [] b.k = "CaptureStart" ->
                    FinishStates(bstates, sid + 1,
                        NfaAddCaptureStart(nfa, b.next, b.capture_index),
                        SetAt(remap, sid, id), empties)
              [] b.k = "CaptureEnd" ->
                    FinishStates(bstates, sid + 1,
                        NfaAddCaptureEnd(nfa, b.next, b.capture_index),
                        SetAt(remap, sid, id), empties)
              [] b.k = "Range" ->
                    FinishStates(bstates, sid + 1,
                        NfaAddState(nfa, SRange(b.range)),
                        SetAt(remap, sid, id), empties)
              [] b.k = "Sparse" ->
                    FinishStates(bstates, sid + 1,
                        NfaAddState(nfa, SSparse(b.ranges)),
                        SetAt(remap, sid, id), empties)
              [] b.k = "Look" ->
                    FinishStates(bstates, sid + 1,
                        NfaAddState(nfa, SLook(b.look, b.next)),
                        SetAt(remap, sid, id), empties)
              [] b.k = "Union" ->
                    FinishStates(bstates, sid + 1,
                        NfaAddState(nfa, SUnion(b.alternates)),
                        SetAt(remap, sid, id), empties)
              [] b.k = "UnionReverse" ->
                    FinishStates(bstates, sid + 1,
                        NfaAddState(nfa, SUnion(Reverse(b.alternates))),
                        SetAt(remap, sid, id), empties)
              [] b.k = "Match" ->
                    FinishStates(bstates, sid + 1,
                        NfaFinishPattern(NfaAddMatch(nfa), b.start_id),
                        SetAt(remap, sid, id), empties)

\* A variant of the loop below that follows no link from the recorded
\* target.
FollowEmptyNever(bstates, empty_next) == empty_next

\* `while let CState::Empty { next } = bstates[empty_next]`
RECURSIVE FollowEmpty(_, _)
FollowEmpty(bstates, empty_next) ==
    IF At(bstates, empty_next).k = "Empty"
    THEN FollowEmpty(bstates, At(bstates, empty_next).next)
    ELSE empty_next

\* The second loop of finish, over the recorded Empty states.
RECURSIVE FinishEmpties(_, _, _)
FinishEmpties(bstates, empties, remap) ==
    IF empties = <<>> THEN remap
    ELSE LET empty_id == Head(empties)[1]
             empty_next == FollowEmpty(bstates, Head(empties)[2])
         IN FinishEmpties(bstates, Tail(empties),
                          SetAt(remap, empty_id, At(remap, empty_next)))

\* finish: the automaton, and the compiler's remap table and empties
\* after it.  The automaton filled is the compiler's own, which configure
\* has cleared.
Finish(c, start_anchored, start_unanchored) ==
    LET WithRemap(nfa, remap, empties) ==
            [nfa |-> NfaRemap([nfa EXCEPT
                                  !.start_anchored = start_anchored,
                                  !.start_unanchored = start_unanchored],
                              remap),
             remap |-> remap, empties |-> empties]
        AfterStates(first) ==
            WithRemap(first.nfa,
                      FinishEmpties(c.states, first.empties, first.remap),
                      first.empties)
    IN AfterStates(FinishStates(c.states, 0, c.nfa,
                                Resize(c.remap, Len(c.states)), <<>>))

\* ----------------------------------------------------- Compiler::compile

\* The result of a build: err is "ok" and nfa the automaton, or err names
\* the error and there is no automaton.
CompileResult(err, nfa) == [err |-> err, nfa |-> nfa]

\* NFA::never_match(): one state, which fails.
NfaNeverMatch == [NfaEmpty EXCEPT !.states = <<SFail>>]

\* PatternID::LIMIT, scaled down to a number of patterns that can be
\* listed.
PatternIDLimit == 3

\* A variant of the test below that also refuses a list of LIMIT patterns.
TooManyPatternsAtLimit(exprs) == Len(exprs) >= PatternIDLimit

\* `exprs.len() > PatternID::LIMIT`
TooManyPatterns(exprs) == Len(exprs) > PatternIDLimit

\* Builder::build_many_from_hir_with: configure the compiler handed in,
\* then compile with it.  The result, and the compiler as the call leaves
\* it: after an error with everything added so far, after finish with the
\* remap table and the empties of this compilation and with its automaton
\* taken out (`self.nfa.replace(NFA::empty())`).
BuildManyFromHirWith(compiler, cfg, exprs) ==
    LET Finished(r) ==
            IF r.c.err # "ok"
            THEN [result |-> CompileResult(r.c.err, NfaEmpty), compiler |-> r.c]
            ELSE LET f == Finish(r.c, r.start_anchored, r.start_unanchored)
                 IN [result |-> CompileResult("ok", f.nfa),
                     compiler |-> [r.c EXCEPT !.remap = f.remap,
                                              !.empties = f.empties,
                                              !.nfa = NfaEmpty]]
        Compiling(configured) ==
            IF exprs = <<>>
            THEN [result |-> CompileResult("ok", NfaNeverMatch),
                  compiler |-> configured]
            ELSE IF TooManyPatterns(exprs)
            THEN [result |-> CompileResult("too_many_patterns", NfaEmpty),
                  compiler |-> configured]
            ELSE Finished(C(configured, HirPatterns(exprs)))
    IN Compiling(Configure(compiler, cfg))

\* Builder::build_many_from_hir: with a Compiler::new().
Compile(cfg, exprs) ==
    BuildManyFromHirWith(NewCompiler(cfg), cfg, exprs).result

\* ============================================================ the PikeVM

\* pikevm::Config
VmConfigDefault == [anchored |-> None, utf8 |-> None]
VmGetAnchored(cfg) == UnwrapOr(cfg.anchored, FALSE)
VmGetUtf8(cfg) == UnwrapOr(cfg.utf8, TRUE)

HaystackGet(haystack, at) ==
    IF at < Len(haystack) THEN Some(At(haystack, at)) ELSE None

\* Transition::matches: the byte at `at`, if any, lies in [start, end].
TransitionMatches(t, haystack, at) ==
    /\ at < Len(haystack)
    /\ t.start <= At(haystack, at)
    /\ At(haystack, at) <= t.end

\* SparseTransitions::matches: the target of the range holding the byte.
SparseMatches(ranges, haystack, at) ==
    LET hits == {i \in 1..Len(ranges) : TransitionMatches(ranges[i], haystack, at)}
    IN IF hits = {} THEN None
       ELSE Some(ranges[CHOOSE i \in hits : \A j \in hits : i <= j].next)

IsWordByte(b) ==
    \/ (48 <= b /\ b <= 57)
    \/ (65 <= b /\ b <= 90)
    \/ b = 95
    \/ (97 <= b /\ b <= 122)

\* Look::matches
LookMatches(look, haystack, at) ==
    LET word_before == at > 0 /\ IsWordByte(At(haystack, at - 1))
        word_after == at < Len(haystack) /\ IsWordByte(At(haystack, at))
    IN CASE look = "StartLine" -> at = 0 \/ At(haystack, at - 1) = 10
         [] look = "EndLine" -> at = Len(haystack) \/ At(haystack, at) = 10
         [] look = "StartText" -> at = 0
         [] look = "EndText" -> at = Len(haystack)
         [] look \in {"WordBoundaryAscii", "WordBoundaryUnicode"} ->
                word_before # word_after
         [] look \in {"WordBoundaryAsciiNegate", "WordBoundaryUnicodeNegate"} ->
                word_before = word_after

\* NFA::is_always_start_anchored
IsAlwaysStartAnchored(nfa) == nfa.start_anchored = nfa.start_unanchored

\* Threads: the sparse set of state IDs in insertion order and, for every
\* state ID, a vector of slots_per_thread slots.
ThreadsNew(nfa) ==
    [set |-> <<>>,
     caps |-> [i \in 1..Len(nfa.states) |->
                  [j \in 1..CaptureSlotLen(nfa) |-> None]]]

\* A variant of the membership test that does not see the first entry.
SetContainsButFirst(set, sid) == \E i \in 2..Len(set) : set[i] = sid

SetContains(set, sid) == \E i \in 1..Len(set) : set[i] = sid
ThreadsCaps(threads, sid) == At(threads.caps, sid)

\* Cache::new, Cache::swap, Cache::clear
CacheNew(nfa) ==
    [stack |-> <<>>, clist |-> ThreadsNew(nfa), nlist |-> ThreadsNew(nfa)]
\* A variant of clear that leaves the threads of the current list.
CacheClearStackOnly(cache) ==
    [cache EXCEPT !.stack = <<>>, !.nlist.set = <<>>]

CacheClear(cache) ==
    [cache EXCEPT !.stack = <<>>, !.clist.set = <<>>, !.nlist.set = <<>>]
CacheSwap(cache) ==
    [cache EXCEPT !.clist = cache.nlist, !.nlist = cache.clist]

\* Captures::new
CapturesNew(nfa) == [j \in 1..CaptureSlotLen(nfa) |-> None]

FrameStateID(sid) == [t |-> "StateID", sid |-> sid]
\* A variant of the Capture frame that forgets the position to restore.
FrameCaptureForgets(slot, pos) == [t |-> "Capture", slot |-> slot, pos |-> None]

FrameCapture(slot, pos) == [t |-> "Capture", slot |-> slot, pos |-> pos]

\* The state an epsilon closure works on: the list it fills, the scratch
\* slots of the thread being followed, and the explicit stack.
Closure(nlist, thread_caps, stack) ==
    [nlist |-> nlist, thread_caps |-> thread_caps, stack |-> stack]

\* A variant that pushes the frames in the order listed.
UnionFramesListed(alternates) ==
    LET rest == Tail(alternates)
    IN [i \in 1..Len(rest) |-> FrameStateID(rest[i])]

\* The frames pushed for a Union: alternates[1..] in reverse, so that the
\* second alternate is popped first.
UnionFrames(alternates) ==
    LET rest == Tail(alternates)
    IN [i \in 1..Len(rest) |-> FrameStateID(rest[Len(rest) + 1 - i])]

\* `thread_caps[slot] = Some(at)` of the Capture arm.
\* A variant of the slot write below that loses the position.
SetSlotAtZero(thread_caps, slot, at) == SetAt(thread_caps, slot, Some(0))

SetSlot(thread_caps, slot, at) == SetAt(thread_caps, slot, Some(at))

RECURSIVE EpsilonClosureStep(_, _, _, _, _)
EpsilonClosureStep(nfa, haystack, at, cl, sid) ==
    IF SetContains(cl.nlist.set, sid) THEN cl
    ELSE LET s == At(nfa.states, sid)
             ins == [cl EXCEPT !.nlist.set = Append(@, sid)]
         IN CASE s.k \in {"Fail", "Range", "Sparse", "Match"} ->
                    [ins EXCEPT !.nlist.caps = SetAt(@, sid, cl.thread_caps)]
              [] s.k = "Look" ->
                    IF ~LookMatches(s.look, haystack, at) THEN ins
                    ELSE EpsilonClosureStep(nfa, haystack, at, ins, s.next)
              [] s.k = "Union" ->
                    IF s.alternates = <<>> THEN ins
                    ELSE EpsilonClosureStep(nfa, haystack, at,
                             [ins EXCEPT !.stack = @ \o UnionFrames(s.alternates)],
                             s.alternates[1])
              [] s.k = "Capture" ->
                    IF s.slot < Len(cl.thread_caps)
                    THEN EpsilonClosureStep(nfa, haystack, at,
                             [ins EXCEPT
                                 !.stack = Append(@,
                                     FrameCapture(s.slot, At(cl.thread_caps, s.slot))),
                                 !.thread_caps = SetSlot(@, s.slot, at)],
                             s.next)
                    ELSE EpsilonClosureStep(nfa, haystack, at, ins, s.next)

\* `while let Some(frame) = stack.pop()`
RECURSIVE EpsilonClosureLoop(_, _, _, _)
EpsilonClosureLoop(nfa, haystack, at, cl) ==
    IF cl.stack = <<>> THEN cl
    ELSE LET frame == Last(cl.stack)
             popped == [cl EXCEPT !.stack = Front(@)]
         IN IF frame.t = "StateID"
            THEN EpsilonClosureLoop(nfa, haystack, at,
                     EpsilonClosureStep(nfa, haystack, at, popped, frame.sid))
            ELSE EpsilonClosureLoop(nfa, haystack, at,
                     [popped EXCEPT !.thread_caps = SetAt(@, frame.slot, frame.pos)])

EpsilonClosure(nfa, haystack, at, cl, sid) ==
    EpsilonClosureLoop(nfa, haystack, at,
                       [cl EXCEPT !.stack = Append(@, FrameStateID(sid))])

\* PikeVM::step on the thread `sid` of the current list.  `slots` is the
\* caller's Captures, `cl` holds the next list, the thread's own slots and
\* the stack.  The result adds the pattern ID of a Match, if sid is one.
StepResult(cl, slots, pid) == [cl |-> cl, slots |-> slots, pid |-> pid]

Step(nfa, haystack, at, cl, slots, sid) ==
    LET s == At(nfa.states, sid)
    IN CASE s.k \in {"Fail", "Look", "Union", "Capture"} ->
                StepResult(cl, slots, None)
         [] s.k = "Range" ->
                IF TransitionMatches(s.range, haystack, at)
                THEN StepResult(
                         EpsilonClosure(nfa, haystack, at + 1, cl, s.range.next),
                         slots, None)
                ELSE StepResult(cl, slots, None)
         [] s.k = "Sparse" ->
                LET next == SparseMatches(s.ranges, haystack, at)
                IN IF IsSome(next)
                   THEN StepResult(
                            EpsilonClosure(nfa, haystack, at + 1, cl, Unwrap(next)),
                            slots, None)
                   ELSE StepResult(cl, slots, None)
         [] s.k = "Match" -> StepResult(cl, cl.thread_caps, Some(s.id))

\* ------------------------------------------- PikeVM::find_leftmost_at

MultiMatch(pattern, start, end) ==
    [pattern |-> pattern, start |-> start, end |-> end]
IsEmptyMatch(mm) == mm.start = mm.end

\* The locals of one call of find_leftmost_at.
Frame(start, end, slots) ==
    [start |-> start, end |-> end, at |-> start, matched_pid |-> None,
     slots |-> slots]

VmAnchored(vcfg, nfa) == VmGetAnchored(vcfg) \/ IsAlwaysStartAnchored(nfa)

\* `for i in 0..cache.clist.set.len()`: the threads of the current list from
\* index i on, until one of them is a Match.
ForResult(cache, slots, pid) == [cache |-> cache, slots |-> slots, pid |-> pid]

\* A variant of the loop over the threads that goes on after a Match.
RECURSIVE ForThreadsNoBreak(_, _, _, _, _, _)
ForThreadsNoBreak(nfa, haystack, at, cache, slots, i) ==
    IF i >= Len(cache.clist.set) THEN ForResult(cache, slots, None)
    ELSE LET sid == At(cache.clist.set, i)
             r == Step(nfa, haystack, at,
                       Closure(cache.nlist, ThreadsCaps(cache.clist, sid),
                               cache.stack),
                       slots, sid)
             cache1 == [cache EXCEPT
                           !.nlist = r.cl.nlist,
                           !.stack = r.cl.stack,
                           !.clist.caps = SetAt(@, sid, r.cl.thread_caps)]
             rest == ForThreadsNoBreak(nfa, haystack, at, cache1, r.slots, i + 1)
         IN IF IsSome(r.pid) THEN ForResult(rest.cache, r.slots, r.pid)
            ELSE rest

RECURSIVE ForThreads(_, _, _, _, _, _)
ForThreads(nfa, haystack, at, cache, slots, i) ==
    IF i >= Len(cache.clist.set) THEN ForResult(cache, slots, None)
    ELSE LET sid == At(cache.clist.set, i)
             r == Step(nfa, haystack, at,
                       Closure(cache.nlist, ThreadsCaps(cache.clist, sid),
                               cache.stack),
                       slots, sid)
             cache1 == [cache EXCEPT
                           !.nlist = r.cl.nlist,
                           !.stack = r.cl.stack,
                           !.clist.caps = SetAt(@, sid, r.cl.thread_caps)]
         IN IF IsSome(r.pid) THEN ForResult(cache1, r.slots, r.pid)
            ELSE ForThreads(nfa, haystack, at, cache1, r.slots, i + 1)

\* The first test of 'LOOP: the search is over.
LoopBreaks(fr, cache, anchored) ==
    /\ cache.clist.set = <<>>
    /\ (IsSome(fr.matched_pid) \/ (anchored /\ fr.at > fr.start))

\* A variant of the second test that does not look at the match recorded.
SeedsAfterMatch(fr, cache, anchored) ==
    \/ ~anchored
    \/ cache.clist.set = <<>>

\* The second test of 'LOOP: the start state is added at `at`.
Seeds(fr, cache, anchored) ==
    \/ (~anchored /\ ~IsSome(fr.matched_pid))
    \/ cache.clist.set = <<>>

\* A variant of the seeding that starts from the unanchored start state.
SeedFromUnanchored(nfa, cfg, haystack, f, c) ==
    IF Seeds(f, c, VmAnchored(cfg, nfa))
    THEN EpsilonClosure(nfa, haystack, f.at,
             Closure(c.clist, f.slots, c.stack), nfa.start_unanchored)
    ELSE Closure(c.clist, f.slots, c.stack)

\* The seeding of a pass: when the second test holds, the closure of the
\* anchored start state is added to the current list at `at`, with the
\* caller's slots as scratch.
Seed(nfa, cfg, haystack, f, c) ==
    IF Seeds(f, c, VmAnchored(cfg, nfa))
    THEN EpsilonClosure(nfa, haystack, f.at,
             Closure(c.clist, f.slots, c.stack), nfa.start_anchored)
    ELSE Closure(c.clist, f.slots, c.stack)

\* One pass through the body of 'LOOP that did not break at its first
\* test: seed, step every thread, and either stop at `end` or advance.
\* `over` says that the loop was left.
LoopBody(nfa, vcfg, haystack, fr, cache) ==
    LET seed == Seed(nfa, vcfg, haystack, fr, cache)
        cache1 == [cache EXCEPT !.clist = seed.nlist, !.stack = seed.stack]
        r == ForThreads(nfa, haystack, fr.at, cache1, seed.thread_caps, 0)
        fr1 == [fr EXCEPT !.slots = r.slots,
                          !.matched_pid = IF IsSome(r.pid) THEN r.pid ELSE @]
    IN IF fr.at >= fr.end
       THEN [fr |-> fr1, cache |-> r.cache, over |-> TRUE]
       ELSE [fr |-> [fr1 EXCEPT !.at = @ + 1],
             cache |-> [CacheSwap(r.cache) EXCEPT !.nlist.set = <<>>],
             over |-> FALSE]

\* `matched_pid.map(..)`: the slots of the pattern's whole match are read
\* and unwrapped.  "panic" when a slot is missing or None.
ReturnPanics(nfa, fr) ==
    /\ IsSome(fr.matched_pid)
    /\ LET pid == Unwrap(fr.matched_pid)
       IN \/ pid >= Len(nfa.patterns_to_slots)
          \/ PatternSlots(nfa, pid).start + 1 >= Len(fr.slots)
          \/ ~IsSome(At(fr.slots, PatternSlots(nfa, pid).start))
          \/ ~IsSome(At(fr.slots, PatternSlots(nfa, pid).start + 1))

ReturnValue(nfa, fr) ==
    IF ~IsSome(fr.matched_pid) THEN None
    ELSE LET pid == Unwrap(fr.matched_pid)
             start == PatternSlots(nfa, pid).start
         IN Some(MultiMatch(pid, Unwrap(At(fr.slots, start)),
                            Unwrap(At(fr.slots, start + 1))))

\* util::next_utf8: one past the encoded character starting at i.
Utf8Len(b) ==
    IF b <= 127 THEN Some(1)
    ELSE IF b <= 191 THEN None
    ELSE IF b <= 223 THEN Some(2)
    ELSE IF b <= 239 THEN Some(3)
    ELSE IF b <= 247 THEN Some(4)
    ELSE None

NextUtf8(text, i) ==
    IF i >= Len(text) THEN i + 1
    ELSE i + UnwrapOr(Utf8Len(At(text, i)), 1)

\* ================================================================ inputs

\* Bounds of the explored inputs.
MaxHayLen == 3
MaxRep == 3

ByteA == 97
ByteB == 98
\* The lead byte of a two-byte UTF-8 sequence.
ByteLead2 == 206

RECURSIVE SeqsUpTo(_, _)
SeqsUpTo(S, n) ==
    IF n = 0 THEN {<<>>}
    ELSE LET shorter == SeqsUpTo(S, n - 1)
         IN shorter \cup {Append(h, x) : h \in shorter, x \in S}

Haystacks == SeqsUpTo({ByteA, ByteB, ByteLead2}, MaxHayLen)

a == HirChar(ByteA)
b == HirChar(ByteB)
ab == HirConcat(<<a, b>>)
Grp(i, e) == HirGroup(CaptureIndex(i), e)
Rep(rk, greedy, e) == HirRepetition(rk, greedy, e)

\* The bodies of repetitions and the branches of alternations.
Atoms == {a, b, ab, HirEmpty}

Alternations ==
    {HirAlternation(<<x, y>>) : x \in Atoms, y \in Atoms}
    \cup {HirAlternation(<<a, b, ab>>), HirAlternation(<<ab, a, b>>),
          HirAlternation(<<HirEmpty, a, ab>>)}

RepKinds ==
    {ZeroOrOne, ZeroOrMore, OneOrMore}
    \cup {Exactly(n) : n \in 0..MaxRep}
    \cup {AtLeast(n) : n \in 0..MaxRep}
    \cup {Bounded(m, n) : m \in 0..MaxRep, n \in 0..MaxRep}

Repetitions ==
    {Rep(rk, g, a) : rk \in {r \in RepKinds : r.t # "Bounded" \/ r.min <= r.max},
                     g \in BOOLEAN}
    \cup {Rep(Bounded(m, n), TRUE, ab) : m \in 0..1, n \in 1..2}

\* Repetitions of bodies that match the empty string, and groups in them.
NullableBodies ==
    {Rep(rk, g, Grp(1, Rep(ik, TRUE, a))) :
        rk \in {ZeroOrMore, OneOrMore}, g \in BOOLEAN,
        ik \in {ZeroOrOne, ZeroOrMore}}
    \cup {Rep(ZeroOrMore, TRUE, HirAlternation(<<HirEmpty, a>>)),
          Rep(ZeroOrMore, TRUE, HirAlternation(<<a, HirEmpty>>)),
          Rep(Bounded(1, 2), TRUE, Rep(ZeroOrOne, FALSE, a))}

Groups ==
    {HirConcat(<<Grp(1, a), Grp(2, b)>>),
     HirConcat(<<Grp(1, HirAlternation(<<a, ab>>)), Grp(2, Rep(ZeroOrOne, TRUE, b))>>),
     HirConcat(<<Grp(1, Rep(ZeroOrMore, TRUE, a)), Grp(2, Rep(ZeroOrMore, TRUE, a))>>),
     HirConcat(<<Grp(1, Rep(ZeroOrMore, FALSE, a)), Grp(2, Rep(ZeroOrMore, TRUE, a))>>),
     HirAlternation(<<Grp(1, a), Grp(2, b)>>),
     Grp(1, HirConcat(<<a, Grp(2, Rep(ZeroOrOne, TRUE, b))>>)),
     HirGroup(NonCapturing, ab),
     Rep(OneOrMore, TRUE, Grp(1, HirAlternation(<<a, b>>)))}

Looks ==
    {HirConcat(<<HirAnchor("StartText"), a>>),
     HirConcat(<<a, HirAnchor("EndText")>>),
     HirAnchor("EndText"),
     HirAnchor("StartText"),
     HirConcat(<<HirWordBoundary("Ascii"), Rep(OneOrMore, TRUE, a)>>),
     HirWordBoundary("AsciiNegate"),
     HirAlternation(<<HirConcat(<<HirAnchor("StartText"), a>>), b>>),
     HirConcat(<<HirClassBytes(<<[start |-> ByteA, end |-> ByteA],
                               [start |-> ByteLead2, end |-> ByteLead2]>>),
                 Rep(ZeroOrOne, TRUE, b)>>)}

Patterns == Atoms \cup Alternations \cup Repetitions \cup NullableBodies
            \cup Groups \cup Looks

\* The pattern lists handed to build_many.
PatternLists ==
    {<<e>> : e \in Patterns}
    \cup {<<a, b>>, <<a, ab>>, <<ab, a>>, <<Rep(ZeroOrMore, TRUE, a), b>>,
          <<b, HirEmpty>>, <<Grp(1, a), ab, Grp(1, b)>>}

\* The test configuration of the compiler's unit tests, and the builder's
\* configurations with the byte-wise unanchored prefix.
CfgBytes == [ConfigDefault EXCEPT !.utf8 = Some(FALSE)]
CfgNoCaptures == [CfgBytes EXCEPT !.captures = Some(FALSE)]
CfgTest == [ConfigDefault EXCEPT !.captures = Some(FALSE),
                                 !.unanchored_prefix = Some(FALSE)]
CfgNoPrefix == [ConfigDefault EXCEPT !.unanchored_prefix = Some(FALSE)]

VmConfigs == [anchored : {None, Some(TRUE)}, utf8 : {None, Some(FALSE)}]

\* What a run starts from: the patterns, the compiler's configuration and
\* the PikeVM's configuration.
Inputs ==
    (PatternLists \X {CfgBytes} \X VmConfigs)
    \cup ({<<e>> : e \in Atoms \cup Looks} \X {CfgNoCaptures, CfgTest, CfgNoPrefix}
          \X {VmConfigDefault})

\* ======================================================= the state machine

VARIABLES
    compiler,   \* a Compiler kept by the caller between builds
    earlier,    \* the builds made with it before: patterns, config, error
    calls,      \* the arguments of the configure calls made so far
    utf8c,      \* a Utf8Compiler, and the start of its fragment once finished
    hirs,       \* the patterns given to the builder
    ccfg,       \* thompson::Config of the builder
    vcfg,       \* pikevm::Config of the builder
    built,      \* the result of Builder::build_many
    text,       \* the haystack of the iterator
    pc,         \* where the caller is
    iter,       \* FindLeftmostMatches: last_end, last_match
    cache,      \* the Cache the iterator borrows
    fr,         \* the locals of the running find_leftmost_at
    m,          \* what the last find_leftmost_at returned
    ret,        \* what the last next() returned
    yielded,    \* the matches next() has returned so far
    none_seen   \* next() has returned None

vars == <<compiler, earlier, calls, utf8c, hirs, ccfg, vcfg, built, text, pc,
          iter, cache, fr, m, ret, yielded, none_seen>>

\* A UTF-8 sub-compiler just made, before any add.
NoUtf8 == [u |-> Utf8New(NewCompiler(ConfigDefault)), start |-> None]

NoFrame == Frame(0, 0, <<>>)
NoCache == [stack |-> <<>>, clist |-> [set |-> <<>>, caps |-> <<>>],
            nlist |-> [set |-> <<>>, caps |-> <<>>]]

Init ==
    /\ \E in \in Inputs : hirs = in[1] /\ ccfg = in[2] /\ vcfg = in[3]
    /\ compiler = NewCompiler(ConfigDefault)
    /\ earlier = <<>>
    /\ calls = <<>>
    /\ utf8c = NoUtf8
    /\ built = CompileResult("none", NfaEmpty)
    /\ text = <<>>
    /\ pc = "new"
    /\ iter = [last_end |-> 0, last_match |-> None]
    /\ cache = NoCache
    /\ fr = NoFrame
    /\ m = None
    /\ ret = None
    /\ yielded = <<>>
    /\ none_seen = FALSE

\* Builder::build_many: compile the patterns.
Build ==
    /\ pc = "new"
    /\ built' = Compile(ccfg, hirs)
    /\ pc' = IF built'.err = "ok" THEN "built" ELSE "failed"
    /\ UNCHANGED <<utf8c, compiler, earlier, calls, hirs, ccfg, vcfg,
                   text, iter, cache, fr, m, ret, yielded,
                   none_seen>>

\* PikeVM::create_cache and PikeVM::find_leftmost_iter on a haystack.
NewIter ==
    /\ pc = "built"
    /\ \E h \in Haystacks : text' = h
    /\ cache' = CacheNew(built.nfa)
    /\ iter' = [last_end |-> 0, last_match |-> None]
    /\ pc' = "idle"
    /\ UNCHANGED <<utf8c, compiler, earlier, calls, hirs, ccfg, vcfg,
                   built, fr, m, ret, yielded, none_seen>>

\* The head of FindLeftmostMatches::next with the iterator as `it`: either
\* it returns None at once or it calls find_leftmost_at, which starts by
\* clearing the cache.
Enter(it) ==
    /\ iter' = it
    /\ IF it.last_end > Len(text)
       THEN /\ pc' = "idle"
            /\ ret' = None
            /\ none_seen' = TRUE
            /\ UNCHANGED <<utf8c, fr, cache>>
       ELSE /\ pc' = "loop"
            /\ fr' = Frame(it.last_end, Len(text), CapturesNew(built.nfa))
            /\ cache' = CacheClear(cache)
            /\ UNCHANGED <<utf8c, ret, none_seen>>

\* A call of next().
IterNext ==
    /\ pc = "idle"
    /\ Enter(iter)
    /\ UNCHANGED <<utf8c, compiler, earlier, calls, hirs, ccfg, vcfg,
                   built, text, m, yielded>>

\* One pass of 'LOOP of find_leftmost_at.
SearchLoop ==
    /\ pc = "loop"
    /\ IF LoopBreaks(fr, cache, VmAnchored(vcfg, built.nfa))
       THEN pc' = "ret" /\ UNCHANGED <<utf8c, fr, cache>>
       ELSE LET r == LoopBody(built.nfa, vcfg, text, fr, cache)
            IN /\ fr' = r.fr
               /\ cache' = r.cache
               /\ pc' = IF r.over THEN "ret" ELSE "loop"
    /\ UNCHANGED <<utf8c, compiler, earlier, calls, hirs, ccfg, vcfg,
                   built, text, iter, m, ret, yielded,
                   none_seen>>

\* The end of find_leftmost_at: the match is built from the slots.
SearchReturn ==
    /\ pc = "ret"
    /\ IF ReturnPanics(built.nfa, fr)
       THEN pc' = "panic" /\ UNCHANGED m
       ELSE pc' = "resume" /\ m' = ReturnValue(built.nfa, fr)
    /\ UNCHANGED <<utf8c, compiler, earlier, calls, hirs, ccfg, vcfg,
                   built, text, iter, cache, fr, ret,
                   yielded, none_seen>>

\* Two variants of the start of the next search: one that goes back to the
\* start of a match that is not empty, one that does not step over an empty
\* match.
NextStartAtMatchStart(cfg, haystack, mm) ==
    IF IsEmptyMatch(mm)
    THEN IF VmGetUtf8(cfg) THEN NextUtf8(haystack, mm.end) ELSE mm.end + 1
    ELSE mm.start

NextStartAtMatchEnd(cfg, haystack, mm) == mm.end

\* A variant of next() that returns every match it finds.
SkipsNoMatch(it, mm) == FALSE

\* The start of the search after the match mm: `self.last_end = ...` in
\* either branch of `if m.is_empty()`.
NextStart(cfg, haystack, mm) ==
    IF IsEmptyMatch(mm)
    THEN IF VmGetUtf8(cfg) THEN NextUtf8(haystack, mm.end) ELSE mm.end + 1
    ELSE mm.end

\* `m.is_empty()` and `Some(m.end()) == self.last_match`: the match is not
\* returned and next() calls itself.
SkipsMatch(it, mm) == IsEmptyMatch(mm) /\ Some(mm.end) = it.last_match

\* The rest of next() once find_leftmost_at has returned.
IterResume ==
    /\ pc = "resume"
    /\ IF ~IsSome(m)
       THEN /\ pc' = "idle"
            /\ ret' = None
            /\ none_seen' = TRUE
            /\ UNCHANGED <<utf8c, iter, fr, cache, yielded>>
       ELSE LET mm == Unwrap(m)
                last_end == NextStart(vcfg, text, mm)
            IN IF SkipsMatch(iter, mm)
               THEN /\ Enter([iter EXCEPT !.last_end = last_end])
                    /\ UNCHANGED yielded
               ELSE /\ iter' = [last_end |-> last_end, last_match |-> Some(mm.end)]
                    /\ pc' = "idle"
                    /\ ret' = m
                    /\ yielded' = Append(yielded, mm)
                    /\ UNCHANGED <<utf8c, fr, cache, none_seen>>
    /\ UNCHANGED <<utf8c, compiler, earlier, calls, hirs, ccfg, vcfg,
                   built, text, m>>

Next == Build \/ NewIter \/ IterNext \/ SearchLoop \/ SearchReturn \/ IterResume

Spec == Init /\ [][Next]_vars

\* =========================================== the reference: backtracking

\* A priority-ordered depth-first search of the automaton: from a start
\* position the transitions are followed one path at a time, the alternates
\* of a Union in the order listed, and the first path that arrives at a Match
\* wins.  A pair (state, position) that was tried is not tried again.  The
\* slots written by the Capture states of the winning path come with it.
BtResult(visited, found) == [visited |-> visited, found |-> found]

RECURSIVE BtVisit(_, _, _, _, _, _, _)
RECURSIVE BtAlternates(_, _, _, _, _, _, _)

BtVisit(nfa, haystack, end, visited, slots, sid, pos) ==
    IF <<sid, pos>> \in visited THEN BtResult(visited, None)
    ELSE LET s == At(nfa.states, sid)
             v1 == visited \cup {<<sid, pos>>}
         IN CASE s.k = "Fail" -> BtResult(v1, None)
              [] s.k = "Range" ->
                    IF pos < end /\ TransitionMatches(s.range, haystack, pos)
                    THEN BtVisit(nfa, haystack, end, v1, slots,
                                 s.range.next, pos + 1)
                    ELSE BtResult(v1, None)
              [] s.k = "Sparse" ->
                    IF pos < end /\ IsSome(SparseMatches(s.ranges, haystack, pos))
                    THEN BtVisit(nfa, haystack, end, v1, slots,
                                 Unwrap(SparseMatches(s.ranges, haystack, pos)),
                                 pos + 1)
                    ELSE BtResult(v1, None)
              [] s.k = "Look" ->
                    IF LookMatches(s.look, haystack, pos)
                    THEN BtVisit(nfa, haystack, end, v1, slots, s.next, pos)
                    ELSE BtResult(v1, None)
              [] s.k = "Capture" ->
                    BtVisit(nfa, haystack, end, v1,
                            IF s.slot < Len(slots)
                            THEN SetAt(slots, s.slot, Some(pos)) ELSE slots,
                            s.next, pos)
              [] s.k = "Union" ->
                    BtAlternates(nfa, haystack, end, v1, slots, s.alternates, pos)
              [] s.k = "Match" ->
                    BtResult(v1, Some([pid |-> s.id, end |-> pos,
                                       slots |-> slots]))

BtAlternates(nfa, haystack, end, visited, slots, alts, pos) ==
    IF alts = <<>> THEN BtResult(visited, None)
    ELSE LET r == BtVisit(nfa, haystack, end, visited, slots, Head(alts), pos)
         IN IF IsSome(r.found) THEN r
            ELSE BtAlternates(nfa, haystack, end, r.visited, slots,
                              Tail(alts), pos)

\* The start positions from `at` on, left to right; an anchored search tries
\* `start` only.
RECURSIVE BtSearch(_, _, _, _, _, _)
BtSearch(nfa, haystack, start, end, anchored, at) ==
    IF at > end \/ (anchored /\ at > start) THEN None
    ELSE LET r == BtVisit(nfa, haystack, end, {},
                          [j \in 1..CaptureSlotLen(nfa) |-> None],
                          nfa.start_anchored, at)
         IN IF IsSome(r.found)
            THEN Some([pid |-> Unwrap(r.found).pid, start |-> at,
                       end |-> Unwrap(r.found).end,
                       slots |-> Unwrap(r.found).slots])
            ELSE BtSearch(nfa, haystack, start, end, anchored, at + 1)

\* What backtracking finds for the search that `fr` belongs to.
Backtracked ==
    BtSearch(built.nfa, text, fr.start, fr.end, VmAnchored(vcfg, built.nfa),
             fr.start)

BacktrackedMatch ==
    IF IsSome(Backtracked)
    THEN Some(MultiMatch(Unwrap(Backtracked).pid, Unwrap(Backtracked).start,
                         Unwrap(Backtracked).end))
    ELSE None

\* ================================================================ claims

\* Patterns that are a fixed string of ASCII bytes, and the string.
RECURSIVE IsLiteralString(_)
IsLiteralString(e) ==
    CASE e.kind = "Empty" -> TRUE
      [] e.kind = "Literal" -> e.v <= 127
      [] e.kind = "Concat" -> \A i \in 1..Len(e.es) : IsLiteralString(e.es[i])
      [] OTHER -> FALSE

RECURSIVE LiteralBytes(_)
RECURSIVE LiteralBytesOfAll(_)
LiteralBytes(e) ==
    CASE e.kind = "Empty" -> <<>>
      [] e.kind = "Literal" -> <<e.v>>
      [] e.kind = "Concat" -> LiteralBytesOfAll(e.es)
LiteralBytesOfAll(es) ==
    IF es = <<>> THEN <<>>
    ELSE LiteralBytes(Head(es)) \o LiteralBytesOfAll(Tail(es))

\* The bytes occur in the haystack at position `at` (0-based).
OccursAt(bytes, haystack, at) ==
    /\ at + Len(bytes) <= Len(haystack)
    /\ \A i \in 1..Len(bytes) : haystack[at + i] = bytes[i]

\* The number of back-to-back copies of the non-empty string at `at`.
RECURSIVE RunLength(_, _, _)
RunLength(bytes, haystack, at) ==
    IF OccursAt(bytes, haystack, at)
    THEN 1 + RunLength(bytes, haystack, at + Len(bytes))
    ELSE 0

Min(x, y) == IF x <= y THEN x ELSE y

\* ------------------------------------------------------------------- C1

\* C1 as stated: when the loop of find_leftmost_at is over, the call returns
\* (its unwraps succeed), and what it returns is the match that backtracking
\* over the same automaton finds first, None when backtracking finds none.
C1_SearchIsBacktracking ==
    pc = "ret" =>
        /\ ~ReturnPanics(built.nfa, fr)
        /\ ReturnValue(built.nfa, fr) = BacktrackedMatch

\* C1 for the automata that were compiled with Capture states: every search
\* returns, and returns what backtracking finds.
C1_SearchIsBacktrackingWithCaptures ==
    (pc = "ret" /\ GetCaptures(ccfg)) =>
        /\ ~ReturnPanics(built.nfa, fr)
        /\ ReturnValue(built.nfa, fr) = BacktrackedMatch

\* A search of an automaton without Capture states has recorded a match.
C1_MatchWithoutCaptures ==
    /\ pc = "ret"
    /\ ~GetCaptures(ccfg)
    /\ IsSome(fr.matched_pid)

\* A search of `a` in `a`, compiled with captures(false), is over.
C1_FailingInput ==
    ~(/\ pc = "ret"
      /\ hirs = <<a>>
      /\ ccfg = CfgNoCaptures
      /\ text = <<ByteA>>
      /\ fr.start = 0
      /\ IsSome(BacktrackedMatch)
      /\ ReturnPanics(built.nfa, fr))

\* ------------------------------------------------------------------- C2

\* C2 to C6 are about what a search returns and are stated of the searches
\* that have returned (pc = "resume"); the searches that do not return are
\* the matter of C1.

\* The only pattern is an alternation of fixed strings.
IsLiteralAlternation ==
    /\ Len(hirs) = 1
    /\ hirs[1].kind = "Alternation"
    /\ \A i \in 1..Len(hirs[1].es) : IsLiteralString(hirs[1].es[i])

\* In the intermediate states, the fragment from `sid` spells the bytes and
\* leaves for `end`: a chain of one-byte Range states, or one Empty state.
RECURSIVE Spells(_, _, _, _)
Spells(states, sid, bytes, end) ==
    IF bytes = <<>> THEN At(states, sid) = CEmpty(end)
    ELSE /\ At(states, sid).k = "Range"
         /\ At(states, sid).range.start = Head(bytes)
         /\ At(states, sid).range.end = Head(bytes)
         /\ IF Len(bytes) = 1 THEN At(states, sid).range.next = end
            ELSE Spells(states, At(states, sid).range.next, Tail(bytes), end)

\* c_alternation of the alternatives es leaves a Union whose i-th alternate
\* is the start of the i-th alternative.
UnionInSourceOrder(cfg, es) ==
    LET r == C(NewCompiler(cfg), HirAlternation(es))
        u == At(r.c.states, r.start)
    IN /\ u.k = "Union"
       /\ Len(u.alternates) = Len(es)
       /\ \A i \in 1..Len(es) :
             Spells(r.c.states, u.alternates[i], LiteralBytes(es[i]), r.end)

\* The leftmost-first match of an alternation of fixed strings from `start`
\* on: the smallest position where some alternative occurs, and there the
\* first alternative listed that occurs.
LeftmostFirst(es, haystack, start) ==
    LET Occurs(at) == {i \in 1..Len(es) : OccursAt(LiteralBytes(es[i]), haystack, at)}
        starts == {at \in start..Len(haystack) : Occurs(at) # {}}
    IN IF starts = {} THEN None
       ELSE LET at == CHOOSE x \in starts : \A y \in starts : x <= y
                i == CHOOSE x \in Occurs(at) : \A y \in Occurs(at) : x <= y
            IN Some(MultiMatch(0, at, at + Len(LiteralBytes(es[i]))))

\* C2: the Union compiled for an alternation lists the alternatives' start
\* states in source order; an unanchored search returns the match at the
\* smallest start position where an alternative matches, taken by the first
\* alternative listed that matches there; `a|b` in `ba` gives `b` at [0,1).
C2_AlternationLeftmostFirst ==
    /\ (pc = "built" /\ IsLiteralAlternation)
           => UnionInSourceOrder(ccfg, hirs[1].es)
    /\ (pc = "resume" /\ IsLiteralAlternation /\ ~VmAnchored(vcfg, built.nfa))
           => m = LeftmostFirst(hirs[1].es, text, fr.start)
    /\ (/\ pc = "resume"
        /\ hirs = <<HirAlternation(<<a, b>>)>>
        /\ ~VmAnchored(vcfg, built.nfa)
        /\ text = <<ByteB, ByteA>>
        /\ fr.start = 0)
           => m = Some(MultiMatch(0, 0, 1))

\* `a|ab` searched unanchored in `bab`: a later start, and two alternatives
\* that match there.
C2_Witness ==
    /\ pc = "resume"
    /\ hirs = <<HirAlternation(<<a, ab>>)>>
    /\ ~VmAnchored(vcfg, built.nfa)
    /\ text = <<ByteB, ByteA, ByteB>>
    /\ fr.start = 0
    /\ m = Some(MultiMatch(0, 1, 2))
    /\ UnionInSourceOrder(ccfg, hirs[1].es)

\* ------------------------------------------------------------------- C3

\* The slots of capture group g of pattern pid, as a pair of offsets.
GroupSpan(nfa, slots, pid, g) ==
    <<At(slots, PatternSlots(nfa, pid).start + 2 * g),
      At(slots, PatternSlots(nfa, pid).start + 2 * g + 1)>>

\* C3: on a match the reported slots are those of the winning path: every
\* slot holds the offset at which that path last passed the group's Capture
\* state (nothing for a group it did not pass), and group 0 holds the whole
\* match; `(a)(b)` on `ab` reports (0,1) and (1,2), and (0,2) for group 0.
C3_CapturesOfWinningThread ==
    /\ (pc = "resume" /\ IsSome(m)) =>
           /\ IsSome(Backtracked)
           /\ fr.slots = Unwrap(Backtracked).slots
           /\ GroupSpan(built.nfa, fr.slots, Unwrap(m).pattern, 0)
                  = <<Some(Unwrap(m).start), Some(Unwrap(m).end)>>
    /\ (/\ pc = "resume"
        /\ hirs = <<HirConcat(<<Grp(1, a), Grp(2, b)>>)>>
        /\ text = <<ByteA, ByteB>>
        /\ fr.start = 0)
           => /\ GroupSpan(built.nfa, fr.slots, 0, 1) = <<Some(0), Some(1)>>
              /\ GroupSpan(built.nfa, fr.slots, 0, 2) = <<Some(1), Some(2)>>
              /\ GroupSpan(built.nfa, fr.slots, 0, 0) = <<Some(0), Some(2)>>

\* `(a)(b)` has matched `ab` and the three groups are reported.
C3_Witness ==
    /\ pc = "resume"
    /\ hirs = <<HirConcat(<<Grp(1, a), Grp(2, b)>>)>>
    /\ text = <<ByteA, ByteB>>
    /\ m = Some(MultiMatch(0, 0, 2))
    /\ fr.slots = <<Some(0), Some(2), Some(0), Some(1), Some(1), Some(2)>>

\* ------------------------------------------------------------------- C4

\* C4: greedy `a*` loops before it falls through: on the empty haystack it
\* gives the empty match [0,0), and anchored at the start of a run of n
\* copies of `a` it gives the match of length n.
C4_GreedyStar ==
    (pc = "resume" /\ hirs = <<Rep(ZeroOrMore, TRUE, a)>>) =>
        /\ (text = <<>>) => m = Some(MultiMatch(0, 0, 0))
        /\ VmGetAnchored(vcfg) =>
               m = Some(MultiMatch(0, fr.start,
                        fr.start + RunLength(<<ByteA>>, text, fr.start)))

\* Anchored `a*` on `aaa` has returned the match of length 3.
C4_Witness ==
    /\ pc = "resume"
    /\ hirs = <<Rep(ZeroOrMore, TRUE, a)>>
    /\ VmGetAnchored(vcfg)
    /\ text = <<ByteA, ByteA, ByteA>>
    /\ m = Some(MultiMatch(0, 0, 3))

\* ------------------------------------------------------------------- C5

\* C5: anchored at a position, non-greedy `a??` gives the empty match there
\* ([0,0) in `a`), and greedy `a?` takes the `a` when there is one ([0,1)).
C5_NonGreedyZeroOrOne ==
    /\ (pc = "resume" /\ hirs = <<Rep(ZeroOrOne, FALSE, a)>>
        /\ VmGetAnchored(vcfg))
           => m = Some(MultiMatch(0, fr.start, fr.start))
    /\ (pc = "resume" /\ hirs = <<Rep(ZeroOrOne, TRUE, a)>>
        /\ VmGetAnchored(vcfg))
           => m = Some(MultiMatch(0, fr.start,
                    fr.start + Min(1, RunLength(<<ByteA>>, text, fr.start))))

\* Anchored `a??` in `a` has returned [0,0).
C5_Witness ==
    /\ pc = "resume"
    /\ hirs = <<Rep(ZeroOrOne, FALSE, a)>>
    /\ VmGetAnchored(vcfg)
    /\ text = <<ByteA>>
    /\ fr.start = 0
    /\ m = Some(MultiMatch(0, 0, 0))

\* ------------------------------------------------------------------- C6

\* The only pattern is a greedy x{min,max} with min < max of a fixed
\* non-empty string x.
IsGreedyBounded ==
    /\ Len(hirs) = 1
    /\ hirs[1].kind = "Repetition"
    /\ hirs[1].rep.t = "Bounded"
    /\ hirs[1].rep.min < hirs[1].rep.max
    /\ hirs[1].greedy
    /\ IsLiteralString(hirs[1].hir)
    /\ LiteralBytes(hirs[1].hir) # <<>>

\* C6: anchored at the start of a run of exactly k copies of x, greedy
\* x{m,n} with m < n matches n copies when k >= n, k copies when
\* m <= k < n, and nothing when k < m.
C6_GreedyBounded ==
    (pc = "resume" /\ IsGreedyBounded /\ VmGetAnchored(vcfg)) =>
        LET x == LiteralBytes(hirs[1].hir)
            k == RunLength(x, text, fr.start)
        IN IF k < hirs[1].rep.min THEN m = None
           ELSE m = Some(MultiMatch(0, fr.start,
                        fr.start + Min(k, hirs[1].rep.max) * Len(x)))

\* `a{1,2}` anchored on `aaa` stopped at two copies.
C6_Witness ==
    /\ pc = "resume"
    /\ hirs = <<Rep(Bounded(1, 2), TRUE, a)>>
    /\ VmGetAnchored(vcfg)
    /\ text = <<ByteA, ByteA, ByteA>>
    /\ fr.start = 0
    /\ m = Some(MultiMatch(0, 0, 2))

\* ------------------------------------------------------------------- C7

\* The states a state of the automaton has a transition to.
Successors(nfa, sid) ==
    LET s == At(nfa.states, sid)
    IN CASE s.k = "Range" -> {s.range.next}
         [] s.k = "Sparse" -> {s.ranges[i].next : i \in 1..Len(s.ranges)}
         [] s.k \in {"Look", "Capture"} -> {s.next}
         [] s.k = "Union" -> {s.alternates[i] : i \in 1..Len(s.alternates)}
         [] OTHER -> {}

RECURSIVE Reachable(_, _)
Reachable(nfa, seen) ==
    LET more == seen \cup UNION {Successors(nfa, sid) : sid \in seen}
    IN IF more = seen THEN seen ELSE Reachable(nfa, more)

MatchStates(nfa) == {sid \in 0..(Len(nfa.states) - 1) : At(nfa.states, sid).k = "Match"}

\* C7: an automaton compiled from k >= 1 patterns has exactly k Match
\* states, one for each pattern ID 0..k-1, and every start_pattern(i) is a
\* state ID of the automaton reachable from its unanchored start state.
C7_OneMatchPerPattern ==
    (pc = "built" /\ built.err = "ok") =>
        LET nfa == built.nfa
            k == Len(hirs)
        IN /\ Cardinality(MatchStates(nfa)) = k
           /\ \A pid \in 0..(k - 1) :
                 \E sid \in MatchStates(nfa) : At(nfa.states, sid).id = pid
           /\ Len(nfa.start_pattern) = k
           /\ \A pid \in 0..(k - 1) :
                 /\ At(nfa.start_pattern, pid) \in 0..(Len(nfa.states) - 1)
                 /\ At(nfa.start_pattern, pid)
                        \in Reachable(nfa, {nfa.start_unanchored})

\* Three patterns were compiled behind the unanchored prefix.
C7_Witness ==
    /\ pc = "built"
    /\ built.err = "ok"
    /\ Len(hirs) = 3
    /\ built.nfa.start_unanchored # built.nfa.start_anchored
    /\ Cardinality(MatchStates(built.nfa)) = 3

\* ------------------------------------------------------------------- C8

\* C8: the matches yielded do not overlap and go up: each starts at or after
\* the end of the one before; a search starts where the iterator's last_end
\* is, and after a match is yielded that is the match's end, or past it by a
\* character (UTF-8 mode) or a byte when the match is empty.
C8_YieldedInOrder ==
    /\ \A i \in 2..Len(yielded) : yielded[i].start >= yielded[i - 1].end
    /\ pc \in {"loop", "ret", "resume"} =>
           /\ fr.start = iter.last_end
           /\ yielded # <<>> => fr.start >= Last(yielded).end
    /\ (pc = "idle" /\ IsSome(ret)) =>
           /\ Unwrap(ret) = Last(yielded)
           /\ ~IsEmptyMatch(Unwrap(ret)) => iter.last_end = Unwrap(ret).end
           /\ IsEmptyMatch(Unwrap(ret)) =>
                  /\ iter.last_end > Unwrap(ret).end
                  /\ ~VmGetUtf8(vcfg) => iter.last_end = Unwrap(ret).end + 1

\* Three matches in a row, each starting where the one before ended.
C8_Witness ==
    /\ Len(yielded) = 3
    /\ yielded[2].start = yielded[1].end
    /\ yielded[3].start = yielded[2].end
    /\ ~IsEmptyMatch(yielded[1])
    /\ ~IsEmptyMatch(yielded[2])

\* ------------------------------------------------------------------- C9

\* The step of next() that skips a match.
SkipStep ==
    /\ pc = "resume"
    /\ IsSome(m)
    /\ SkipsMatch(iter, Unwrap(m))

\* C9: no empty match is yielded at the end of the match yielded before it;
\* the step that skips such a match yields nothing, leaves last_match as it
\* was, and goes on from the advanced start: with a search from there, or
\* with None when that start is past the haystack.
C9_SkipsEmptyAfterMatch ==
    /\ [](\A i \in 2..Len(yielded) :
             ~(IsEmptyMatch(yielded[i]) /\ yielded[i].end = yielded[i - 1].end))
    /\ []((pc = "idle" /\ IsSome(ret) /\ IsEmptyMatch(Unwrap(ret))
           /\ Len(yielded) >= 2)
             => Unwrap(ret).end # yielded[Len(yielded) - 1].end)
    /\ [][SkipStep =>
             /\ yielded' = yielded
             /\ iter'.last_match = iter.last_match
             /\ iter'.last_end = NextStart(vcfg, text, Unwrap(m))
             /\ iter'.last_end > Unwrap(m).end
             /\ \/ pc' = "loop" /\ fr'.start = iter'.last_end
                \/ /\ pc' = "idle" /\ ret' = None
                   /\ iter'.last_end > Len(text)]_vars

\* An empty match at the end of a non-empty match was skipped: the search
\* runs from past the end of the last match yielded, which was not empty.
C9_Witness ==
    /\ pc = "loop"
    /\ yielded # <<>>
    /\ ~IsEmptyMatch(Last(yielded))
    /\ iter.last_match = Some(Last(yielded).end)
    /\ fr.start > Last(yielded).end

\* ------------------------------------------------------------------ C10

\* What is left of a call of next() within one search: the passes of 'LOOP
\* still possible, then the return of find_leftmost_at, then the rest of
\* next().
CallRank ==
    CASE pc = "loop" -> 2 + (Len(text) - fr.at)
      [] pc = "ret" -> 1
      [] OTHER -> 0

InCall == pc \in {"loop", "ret", "resume"}

\* C10: a search that finds a match moves the next search start up, whether
\* the match is yielded or skipped; at most Len(text) + 1 matches are
\* yielded; once next() has returned None it yields nothing more and every
\* return is None; and every call of next() comes to its end: every step
\* that does not end the call either moves the search start up, never past
\* Len(text), or leaves it and takes the call nearer to its return.
C10_IteratorTerminates ==
    /\ [][(pc = "resume" /\ IsSome(m)) => iter'.last_end > iter.last_end]_vars
    /\ [](iter.last_match # None => Unwrap(iter.last_match) <= Len(text))
    /\ [](Len(yielded) <= Len(text) + 1)
    /\ []((none_seen /\ pc = "idle") => ret = None)
    /\ [][none_seen => (none_seen' /\ yielded' = yielded)]_vars
    /\ [](InCall => (CallRank >= 0 /\ iter.last_end <= Len(text)))
    /\ [][(InCall /\ InCall') =>
             \/ iter'.last_end > iter.last_end
             \/ iter'.last_end = iter.last_end /\ CallRank' < CallRank]_vars

\* A haystack of the greatest length gave an empty match at each of its
\* positions and next() then returned None.
C10_Witness ==
    /\ Len(text) = MaxHayLen
    /\ Len(yielded) = Len(text) + 1
    /\ none_seen
    /\ pc = "idle"
    /\ iter.last_end > Len(text)

\* ------------------------------------------------------------------ C11

\* The scalar values the classes of this part are made of: the ends of the
\* encoded lengths and of the surrogate gap, and some values between them.
ClassPoints ==
    {0, 97, 127, 128, 945, 948, 2047, 2048, 9731, 55295, 57344, 65535, 65536,
     129305, 1114111}

\* The greatest number of ranges of a class.
MaxClassRanges == 2

\* The classes: sorted ranges of scalar values that do not overlap.
RECURSIVE ClassesFrom(_, _)
ClassesFrom(low, n) ==
    IF n = 0 THEN {<<>>}
    ELSE {<<>>} \cup
         UNION {{<<ScalarRange(lo, hi)>> \o rest :
                    rest \in ClassesFrom(hi + 1, n - 1)} :
                <<lo, hi>> \in {pt \in ClassPoints \X ClassPoints :
                                   low <= pt[1] /\ pt[1] <= pt[2]}}

Classes == ClassesFrom(0, MaxClassRanges) \ {<<>>}

\* A machine that only builds: one class is compiled alone, forwards, with
\* the configuration of the compiler's unit tests.
ClassInit ==
    /\ \E ranges \in Classes : hirs = <<HirClassUnicode(ranges)>>
    /\ ccfg = CfgTest
    /\ vcfg = VmConfigDefault
    /\ compiler = NewCompiler(ConfigDefault)
    /\ earlier = <<>>
    /\ calls = <<>>
    /\ utf8c = NoUtf8
    /\ built = CompileResult("none", NfaEmpty)
    /\ text = <<>>
    /\ pc = "new"
    /\ iter = [last_end |-> 0, last_match |-> None]
    /\ cache = NoCache
    /\ fr = NoFrame
    /\ m = None
    /\ ret = None
    /\ yielded = <<>>
    /\ none_seen = FALSE

ClassSpec == ClassInit /\ [][Build]_vars

\* The scalar value a well-formed sequence of 1 to 4 bytes stands for.
DecodeUtf8(bytes) ==
    CASE Len(bytes) = 1 -> bytes[1]
      [] Len(bytes) = 2 -> (bytes[1] - 192) * 64 + (bytes[2] - 128)
      [] Len(bytes) = 3 ->
            (bytes[1] - 224) * 4096 + (bytes[2] - 128) * 64 + (bytes[3] - 128)
      [] Len(bytes) = 4 ->
            (bytes[1] - 240) * 262144 + (bytes[2] - 128) * 4096
                + (bytes[3] - 128) * 64 + (bytes[4] - 128)

IsScalar(v) == v \in 0..1114111 /\ ~(v \in 55296..57343)

InClass(ranges, v) ==
    \E i \in 1..Len(ranges) : ranges[i].start <= v /\ v <= ranges[i].end

\* The byte string is the UTF-8 encoding of a scalar value of the class.
IsEncodingIn(ranges, bytes) ==
    /\ Len(bytes) \in 1..4
    /\ bytes[1] \in (0..127) \cup (192..247)
    /\ \A i \in 2..Len(bytes) : bytes[i] \in 128..191
    /\ Len(bytes) = 1 <=> bytes[1] <= 127
    /\ Len(bytes) = 2 <=> bytes[1] \in 192..223
    /\ Len(bytes) = 3 <=> bytes[1] \in 224..239
    /\ IsScalar(DecodeUtf8(bytes))
    /\ EncodeUtf8(DecodeUtf8(bytes)) = bytes
    /\ InClass(ranges, DecodeUtf8(bytes))

\* The automaton, entered at sid, takes the byte string to a Match state.
RECURSIVE NfaAccepts(_, _, _)
NfaAccepts(nfa, sid, bytes) ==
    LET s == At(nfa.states, sid)
    IN CASE s.k = "Match" -> bytes = <<>>
         [] s.k = "Range" ->
               /\ bytes # <<>>
               /\ s.range.start <= Head(bytes) /\ Head(bytes) <= s.range.end
               /\ NfaAccepts(nfa, s.range.next, Tail(bytes))
         [] s.k = "Sparse" ->
               /\ bytes # <<>>
               /\ \E i \in 1..Len(s.ranges) :
                     /\ s.ranges[i].start <= Head(bytes)
                     /\ Head(bytes) <= s.ranges[i].end
                     /\ NfaAccepts(nfa, s.ranges[i].next, Tail(bytes))
         [] OTHER -> FALSE

\* The sequences of byte ranges along the paths from sid to a Match state.
RECURSIVE BytePaths(_, _)
BytePaths(nfa, sid) ==
    LET s == At(nfa.states, sid)
        Through(t) ==
            {<<Utf8Range(t.start, t.end)>> \o rest : rest \in BytePaths(nfa, t.next)}
    IN CASE s.k = "Match" -> {<<>>}
         [] s.k = "Range" -> Through(s.range)
         [] s.k = "Sparse" -> UNION {Through(s.ranges[i]) : i \in 1..Len(s.ranges)}
         [] OTHER -> {}

\* How many byte strings the automaton takes from sid to a Match state,
\* counted along its transitions.
RECURSIVE CountAccepted(_, _)
CountAccepted(nfa, sid) ==
    LET s == At(nfa.states, sid)
        Through(t) == (t.end - t.start + 1) * CountAccepted(nfa, t.next)
    IN CASE s.k = "Match" -> 1
         [] s.k = "Range" -> Through(s.range)
         [] s.k = "Sparse" ->
               SumSeq([i \in 1..Len(s.ranges) |-> Through(s.ranges[i])])
         [] OTHER -> 0

\* No byte leaves a state along two transitions: every string accepted is
\* accepted along one path, so CountAccepted counts strings.
ByteDeterministic(nfa) ==
    \A sid \in 0..(Len(nfa.states) - 1) :
        At(nfa.states, sid).k = "Sparse" =>
            LET rs == At(nfa.states, sid).ranges
            IN \A i, j \in 1..Len(rs) :
                  i < j => (rs[i].end < rs[j].start \/ rs[j].end < rs[i].start)

\* Every string along the path is the encoding of a scalar of the class:
\* the strings have one length and a well-formed shape, so their scalars
\* lie between those of the least and the greatest of them.
PathInClass(ranges, path) ==
    LET lows == [i \in 1..Len(path) |-> path[i].start]
        highs == [i \in 1..Len(path) |-> path[i].end]
    IN /\ Len(path) \in 1..4
       /\ \A i \in 1..Len(path) : path[i].start <= path[i].end
       /\ IsEncodingIn(ranges, lows)
       /\ IsEncodingIn(ranges, highs)
       /\ \E i \in 1..Len(ranges) :
             /\ ranges[i].start <= DecodeUtf8(lows)
             /\ DecodeUtf8(highs) <= ranges[i].end
       /\ DecodeUtf8(highs) < 55296 \/ DecodeUtf8(lows) > 57343

\* The number of scalar values of the class.
RECURSIVE CountScalars(_)
CountScalars(ranges) ==
    IF ranges = <<>> THEN 0
    ELSE LET r == Head(ranges)
             gap == Cardinality({v \in {55296, 57343} : r.start <= v /\ v <= r.end})
         IN (r.end - r.start + 1) - (IF gap = 2 THEN 2048 ELSE 0)
                + CountScalars(Tail(ranges))

\* Byte strings of length up to 4 around the scalars of ClassPoints: their
\* encodings, those of their neighbours, what is left of an encoding
\* without its last byte or with one byte more, and strings that are no
\* encoding: overlong forms, a lone continuation byte, a surrogate, a
\* value past the last scalar.
SampleStrings ==
    LET near == {v \in UNION {{x - 1, x, x + 1} : x \in ClassPoints} : IsScalar(v)}
        enc == {EncodeUtf8(v) : v \in near}
    IN enc
       \cup {Front(e) : e \in enc}
       \cup {Append(e, 128) : e \in {x \in enc : Len(x) < 4}}
       \cup {<<>>, <<128>>, <<192, 128>>, <<193, 191>>, <<224, 128, 128>>,
             <<237, 160, 128>>, <<237, 191, 191>>, <<240, 128, 128, 128>>,
             <<244, 144, 128, 128>>, <<206>>, <<206, 97>>, <<255>>}

\* C11: the fragment compiled forwards for a class of scalar ranges takes
\* to its end exactly the byte strings that are the UTF-8 encodings of the
\* scalars of the class: every path through it spells only such encodings,
\* no string has two paths, and the strings it accepts are as many as the
\* scalars of the class, so it accepts all of them and nothing else; of the
\* sample strings it accepts the encodings of the class and rejects the
\* rest.
C11_ClassAcceptsItsEncodings ==
    (pc = "built" /\ hirs[1].kind = "ClassUnicode") =>
        LET ranges == hirs[1].ranges
            nfa == built.nfa
        IN /\ built.err = "ok"
           /\ ByteDeterministic(nfa)
           /\ \A path \in BytePaths(nfa, nfa.start_anchored) :
                 PathInClass(ranges, path)
           /\ CountAccepted(nfa, nfa.start_anchored) = CountScalars(ranges)
           /\ \A bytes \in SampleStrings :
                 NfaAccepts(nfa, nfa.start_anchored, bytes)
                     <=> IsEncodingIn(ranges, bytes)

\* A class of two ranges that needs all four encoded lengths and lies on
\* both sides of the surrogates was compiled.
C11_Witness ==
    /\ pc = "built"
    /\ hirs = <<HirClassUnicode(<<ScalarRange(97, 2048),
                                  ScalarRange(9731, 1114111)>>)>>
    /\ built.err = "ok"
    /\ Cardinality({Len(path) : path \in BytePaths(built.nfa, built.nfa.start_anchored)}) = 4

\* ------------------------------------------------------------------ C12

\* What backtracking finds for pattern pid alone at position `at`: the
\* automaton is entered at the pattern's own start state.
PatternMatchAt(nfa, pid, haystack, end, at) ==
    BtVisit(nfa, haystack, end, {}, [j \in 1..CaptureSlotLen(nfa) |-> None],
            At(nfa.start_pattern, pid), at).found

\* The patterns that match at `at`, by pattern ID.
PatternsMatchingAt(nfa, haystack, end, at) ==
    {pid \in 0..(Len(nfa.start_pattern) - 1) :
        IsSome(PatternMatchAt(nfa, pid, haystack, end, at))}

\* The automaton of the one pattern p0|...|pk-1 under the same
\* configuration, and what backtracking finds in it for the search of `fr`.
AsAlternation == Compile(ccfg, <<HirAlternation(hirs)>>).nfa

BacktrackedAsAlternation ==
    BtSearch(AsAlternation, text, fr.start, fr.end,
             VmAnchored(vcfg, AsAlternation), fr.start)

\* C12: build_many of k >= 2 patterns is their leftmost-first alternation.
\* In the automaton the anchored start is a Union of the patterns' start
\* states in pattern order, start_pattern(i) is the state pattern i is
\* entered at (the Capture state of its group 0), and from it exactly one
\* Match state is reached, the one with ID i.  A search returns the span
\* that the alternation p0|...|pk-1 gives, and with it the ID of the first
\* pattern that matches at that start, ending where that pattern ends.
C12_BuildManyIsAlternation ==
    /\ (pc = "built" /\ Len(hirs) >= 2) =>
           LET nfa == built.nfa
           IN /\ At(nfa.states, nfa.start_anchored) = SUnion(nfa.start_pattern)
              /\ \A pid \in 0..(Len(hirs) - 1) :
                    LET entry == At(nfa.start_pattern, pid)
                        ends == Reachable(nfa, {entry}) \cap MatchStates(nfa)
                    IN /\ Cardinality(ends) = 1
                       /\ \A sid \in ends : At(nfa.states, sid).id = pid
                       /\ GetCaptures(ccfg) =>
                              At(nfa.states, entry).k = "Capture"
                              /\ At(nfa.states, entry).slot
                                     = PatternSlots(nfa, pid).start
    /\ (pc = "resume" /\ Len(hirs) >= 2) =>
           /\ IsSome(m) <=> IsSome(BacktrackedAsAlternation)
           /\ IsSome(m) =>
                  LET mm == Unwrap(m)
                      matching == PatternsMatchingAt(built.nfa, text, fr.end,
                                                     mm.start)
                  IN /\ mm.start = Unwrap(BacktrackedAsAlternation).start
                     /\ mm.end = Unwrap(BacktrackedAsAlternation).end
                     /\ mm.pattern \in matching
                     /\ \A pid \in matching : mm.pattern <= pid
                     /\ mm.end = Unwrap(PatternMatchAt(built.nfa, mm.pattern,
                                                       text, fr.end, mm.start)).end

\* Of `ab` and `a`, built together, the second matched in `ba`: pattern 1
\* at [1,2).
C12_Witness ==
    /\ pc = "resume"
    /\ hirs = <<ab, a>>
    /\ text = <<ByteB, ByteA>>
    /\ fr.start = 0
    /\ m = Some(MultiMatch(1, 1, 2))

\* ------------------------------------------------------------------ C13

\* The greatest size limit tried, in bytes.
MaxLimit == 420

\* Classes whose fragments have Sparse states.
GreekAndHands ==
    HirClassUnicode(<<ScalarRange(945, 948), ScalarRange(129305, 129310)>>)
LettersAndSnowman ==
    HirClassUnicode(<<ScalarRange(97, 122), ScalarRange(9731, 9731)>>)

\* A machine that only builds, under a size limit: every limit up to
\* MaxLimit, and no limit.
LimitInputs ==
    (PatternLists \cup {<<GreekAndHands>>, <<LettersAndSnowman>>})
        \X {CfgBytes, CfgTest}
        \X ({None} \cup {Some(limit) : limit \in 0..MaxLimit})

LimitInit ==
    /\ \E in \in LimitInputs :
          /\ hirs = in[1]
          /\ ccfg = [in[2] EXCEPT !.nfa_size_limit = Some(in[3])]
    /\ vcfg = VmConfigDefault
    /\ compiler = NewCompiler(ConfigDefault)
    /\ earlier = <<>>
    /\ calls = <<>>
    /\ utf8c = NoUtf8
    /\ built = CompileResult("none", NfaEmpty)
    /\ text = <<>>
    /\ pc = "new"
    /\ iter = [last_end |-> 0, last_match |-> None]
    /\ cache = NoCache
    /\ fr = NoFrame
    /\ m = None
    /\ ret = None
    /\ yielded = <<>>
    /\ none_seen = FALSE

LimitSpec == LimitInit /\ [][Build]_vars

\* The compiler when compile has compiled the patterns (or has given up),
\* under the configuration cfg.
Compiled(cfg) == C(NewCompiler(cfg), HirPatterns(hirs)).c

\* The usage of intermediate states, counted from the states themselves:
\* the fixed size of each and the payload of each.
UsageOf(states) ==
    Len(states) * SizeOfCState
        + SumSeq([i \in 1..Len(states) |-> MemoryUsage(states[i])])

\* C13: the usage the compiler keeps is the number of intermediate states
\* times the fixed size plus their payloads.  It only grows, so it exceeds
\* a limit L at some point exactly when the usage of the compilation
\* without a limit is greater than L at the end: in exactly that case
\* compile returns the size-limit error and no automaton, and it has
\* stopped at the first addition (of a state or of an alternate) that took
\* the usage over L.  Without a limit the error does not occur.
C13_SizeLimit ==
    pc \in {"built", "failed"} =>
        LET limit == GetNfaSizeLimit(ccfg)
            free == Compiled([ccfg EXCEPT !.nfa_size_limit = None])
            bounded == Compiled(ccfg)
            usage == NfaMemoryUsage(bounded)
        IN /\ free.err = "ok"
           /\ NfaMemoryUsage(free) = UsageOf(free.states)
           /\ usage = UsageOf(bounded.states)
           /\ limit = None => built.err = "ok"
           /\ IsSome(limit) =>
                  (built.err = "exceeded_size_limit"
                       <=> NfaMemoryUsage(free) > Unwrap(limit))
           /\ built.err \in {"ok", "exceeded_size_limit"}
           /\ built.err = "ok" <=> pc = "built"
           /\ built.err = "exceeded_size_limit" =>
                  /\ built.nfa = NfaEmpty
                  /\ usage > Unwrap(limit)
                  /\ \/ usage - SizeOfStateID <= Unwrap(limit)
                     \/ usage - SizeOfCState
                            - MemoryUsage(Last(bounded.states)) <= Unwrap(limit)
                  /\ Len(bounded.states) <= Len(free.states)

\* A compilation stopped by a limit that its first states fitted in, and
\* a compilation whose usage is exactly its limit.
C13_Witness ==
    /\ pc = "failed"
    /\ built.err = "exceeded_size_limit"
    /\ Len(Compiled(ccfg).states) >= 3
    /\ NfaMemoryUsage(Compiled([ccfg EXCEPT !.nfa_size_limit = None]))
           = Unwrap(GetNfaSizeLimit(ccfg)) + 4

\* ------------------------------------------------------------------ C14

CfgReverse == [CfgTest EXCEPT !.reverse = Some(TRUE), !.shrink = Some(FALSE)]

\* What is built with the Compiler that is kept: some with a size limit
\* that stops the compilation.
ReuseInputs ==
    ({<<e>> : e \in Atoms \cup Groups \cup Looks
                     \cup {GreekAndHands, LettersAndSnowman}}
         \cup {<<a, ab>>, <<Grp(1, a), ab, Grp(1, b)>>})
    \X {CfgBytes, CfgTest, CfgReverse,
        [CfgBytes EXCEPT !.nfa_size_limit = Some(Some(200))],
        [CfgTest EXCEPT !.nfa_size_limit = Some(Some(100))]}

ReuseInit ==
    /\ \E in \in ReuseInputs : hirs = in[1] /\ ccfg = in[2]
    /\ vcfg = VmConfigDefault
    /\ compiler = NewCompiler(ConfigDefault)
    /\ earlier = <<>>
    /\ calls = <<>>
    /\ utf8c = NoUtf8
    /\ built = CompileResult("none", NfaEmpty)
    /\ text = <<>>
    /\ pc = "new"
    /\ iter = [last_end |-> 0, last_match |-> None]
    /\ cache = NoCache
    /\ fr = NoFrame
    /\ m = None
    /\ ret = None
    /\ yielded = <<>>
    /\ none_seen = FALSE

\* Builder::build_many_from_hir_with, with the Compiler that is kept.
BuildWith ==
    /\ pc \in {"new", "again"}
    /\ LET r == BuildManyFromHirWith(compiler, ccfg, hirs)
       IN /\ built' = r.result
          /\ compiler' = r.compiler
    /\ pc' = IF pc = "new" THEN "used" ELSE "reused"
    /\ UNCHANGED <<utf8c, earlier, calls, hirs, ccfg, vcfg, text, iter, cache, fr, m, ret,
                   yielded, none_seen>>

\* The caller turns to other patterns and another configuration.
Again ==
    /\ pc = "used"
    /\ \E in \in ReuseInputs : hirs' = in[1] /\ ccfg' = in[2]
    /\ earlier' = Append(earlier,
                         [hirs |-> hirs, ccfg |-> ccfg, err |-> built.err,
                          states |-> Len(compiler.states)])
    /\ built' = CompileResult("none", NfaEmpty)
    /\ pc' = "again"
    /\ UNCHANGED <<utf8c, compiler, calls, vcfg, text, iter, cache, fr, m, ret, yielded,
                   none_seen>>

ReuseSpec == ReuseInit /\ [][BuildWith \/ Again]_vars

\* C14: what a build returns is what the build of the same patterns under
\* the same configuration returns with a Compiler of its own, whatever the
\* Compiler handed in built before, and whether that build failed.
C14_ReuseIsFresh ==
    pc \in {"used", "reused"} => built = Compile(ccfg, hirs)

\* A build that succeeded with a Compiler that had built other patterns
\* into more states before, so that its remap table was longer than needed
\* and filled.
C14_Witness ==
    /\ pc = "reused"
    /\ built.err = "ok"
    /\ earlier[1].err = "ok"
    /\ earlier[1].hirs # hirs
    /\ earlier[1].states > Len(compiler.states)
    /\ \E i \in 1..Len(compiler.remap) : compiler.remap[i] # 0

\* A build that succeeded with a Compiler whose build before had failed.
C14_AfterFailure ==
    /\ pc = "reused"
    /\ built.err = "ok"
    /\ earlier[1].err = "exceeded_size_limit"
    /\ earlier[1].states > 0

\* ------------------------------------------------------------------ C15

\* find_leftmost_at run from its first line to its last without anything
\* else in between: the frame and the cache at its end, whether an unwrap
\* at its end fails, and what it returns when none does.
RECURSIVE RunLoop(_, _, _, _, _)
RunLoop(nfa, cfg, haystack, f, c) ==
    IF LoopBreaks(f, c, VmAnchored(cfg, nfa)) THEN [fr |-> f, cache |-> c]
    ELSE LET Then(r) ==
                 IF r.over THEN [fr |-> r.fr, cache |-> r.cache]
                 ELSE RunLoop(nfa, cfg, haystack, r.fr, r.cache)
         IN Then(LoopBody(nfa, cfg, haystack, f, c))

FindLeftmostAt(nfa, cfg, haystack, start, end, c, caps) ==
    LET Returned(done) ==
            [fr |-> done.fr, cache |-> done.cache,
             panics |-> ReturnPanics(nfa, done.fr),
             m |-> IF ReturnPanics(nfa, done.fr) THEN None
                   ELSE ReturnValue(nfa, done.fr)]
    IN Returned(RunLoop(nfa, cfg, haystack, Frame(start, end, caps),
                        CacheClear(c)))

\* A variant in which both searches are handed the first Cache.
CacheOfShared(i) == 1

\* The Cache search i is handed: its own.
CacheOf(i) == i

\* Two searches of one PikeVM, in any interleaving of their steps.  Here
\* text, pc, cache, fr and m hold one value for each search.
PairPatterns == Atoms \cup Groups \cup NullableBodies

\* The longest haystack of the two searches.
MaxPairLen == 2
PairHaystacks == SeqsUpTo({ByteA, ByteB}, MaxPairLen)

PairInit ==
    /\ \E e \in PairPatterns, cfg \in {CfgBytes} :
          /\ hirs = <<e>>
          /\ ccfg = cfg
          /\ built = Compile(cfg, <<e>>)
    /\ \E anchored \in {None, Some(TRUE)} :
          vcfg = [VmConfigDefault EXCEPT !.anchored = anchored]
    /\ text \in PairHaystacks \X PairHaystacks
    /\ compiler = NewCompiler(ConfigDefault)
    /\ earlier = <<>>
    /\ calls = <<>>
    /\ utf8c = NoUtf8
    /\ pc = <<"call", "call">>
    /\ iter = [last_end |-> 0, last_match |-> None]
    /\ cache = <<CacheNew(built.nfa), CacheNew(built.nfa)>>
    /\ fr = <<NoFrame, NoFrame>>
    /\ m = <<None, None>>
    /\ ret = None
    /\ yielded = <<>>
    /\ none_seen = FALSE

\* Search i enters find_leftmost_at with its Cache and new Captures.
PairCall(i) ==
    /\ pc[i] = "call"
    /\ fr' = [fr EXCEPT
                 ![i] = Frame(0, Len(text[i]), CapturesNew(built.nfa))]
    /\ cache' = [cache EXCEPT ![CacheOf(i)] = CacheClear(@)]
    /\ pc' = [pc EXCEPT ![i] = "loop"]
    /\ UNCHANGED <<utf8c, compiler, earlier, calls, hirs, ccfg, vcfg, built, text, iter, m,
                   ret, yielded, none_seen>>

\* One pass of 'LOOP in search i.
PairLoop(i) ==
    /\ pc[i] = "loop"
    /\ IF LoopBreaks(fr[i], cache[CacheOf(i)], VmAnchored(vcfg, built.nfa))
       THEN pc' = [pc EXCEPT ![i] = "ret"] /\ UNCHANGED <<utf8c, fr, cache>>
       ELSE LET r == LoopBody(built.nfa, vcfg, text[i], fr[i],
                              cache[CacheOf(i)])
            IN /\ fr' = [fr EXCEPT ![i] = r.fr]
               /\ cache' = [cache EXCEPT ![CacheOf(i)] = r.cache]
               /\ pc' = [pc EXCEPT ![i] = IF r.over THEN "ret" ELSE "loop"]
    /\ UNCHANGED <<utf8c, compiler, earlier, calls, hirs, ccfg, vcfg, built, text, iter, m,
                   ret, yielded, none_seen>>

\* The end of find_leftmost_at in search i.
PairReturn(i) ==
    /\ pc[i] = "ret"
    /\ IF ReturnPanics(built.nfa, fr[i])
       THEN pc' = [pc EXCEPT ![i] = "panic"] /\ UNCHANGED m
       ELSE /\ pc' = [pc EXCEPT ![i] = "done"]
            /\ m' = [m EXCEPT ![i] = ReturnValue(built.nfa, fr[i])]
    /\ UNCHANGED <<utf8c, compiler, earlier, calls, hirs, ccfg, vcfg, built, text, iter,
                   cache, fr, ret, yielded, none_seen>>

PairNext == \E i \in 1..2 : PairCall(i) \/ PairLoop(i) \/ PairReturn(i)

PairSpec == PairInit /\ [][PairNext]_vars

\* What search i returns when nothing else runs.
Alone(i) ==
    FindLeftmostAt(built.nfa, vcfg, text[i], 0, Len(text[i]),
                   CacheNew(built.nfa), CapturesNew(built.nfa))

\* C15: the automaton stays what was built, and a search that has
\* returned among the steps of the other has returned the match and left
\* the capture slots that it returns and leaves when it runs alone.
C15_InterleavedAsAlone ==
    /\ built = Compile(ccfg, hirs)
    /\ \A i \in 1..2 :
          /\ pc[i] = "done" => /\ m[i] = Alone(i).m
                               /\ fr[i].slots = Alone(i).fr.slots
          /\ pc[i] = "panic" => Alone(i).panics

\* Both searches have returned, each its own match of its own haystack.
C15_Witness ==
    /\ pc = <<"done", "done">>
    /\ IsSome(m[1]) /\ IsSome(m[2])
    /\ m[1] # m[2]
    /\ text[1] # text[2]

\* ------------------------------------------------------------------ C16

\* The number of searches made one after the other with one Cache and one
\* Captures.
MaxSearches == 3

\* Searches of one PikeVM, one at a time, all with the same Cache and the
\* same Captures (the slots of fr), neither touched between the calls;
\* yielded holds what the calls returned.
StalePatterns ==
    ({<<e>> : e \in Atoms \cup Groups} \X {CfgBytes})
    \cup ({<<a>>, <<ab>>, <<a, b>>} \X {CfgNoCaptures})

StaleInit ==
    /\ \E in \in StalePatterns :
          /\ hirs = in[1]
          /\ ccfg = in[2]
          /\ built = Compile(in[2], in[1])
    /\ \E anchored \in {None, Some(TRUE)} :
          vcfg = [VmConfigDefault EXCEPT !.anchored = anchored]
    /\ text = <<>>
    /\ compiler = NewCompiler(ConfigDefault)
    /\ earlier = <<>>
    /\ calls = <<>>
    /\ utf8c = NoUtf8
    /\ pc = "ready"
    /\ iter = [last_end |-> 0, last_match |-> None]
    /\ cache = CacheNew(built.nfa)
    /\ fr = Frame(0, 0, CapturesNew(built.nfa))
    /\ m = None
    /\ ret = None
    /\ yielded = <<>>
    /\ none_seen = FALSE

\* A call of find_leftmost_at, from its first line to its last.
Search ==
    /\ pc \in {"ready", "returned"}
    /\ Len(yielded) < MaxSearches
    /\ \E h \in PairHaystacks : \E start \in 0..Len(h) :
       \E end \in start..Len(h) :
          LET Returns(r) ==
                  /\ text' = h
                  /\ fr' = r.fr
                  /\ cache' = r.cache
                  /\ IF r.panics
                     THEN pc' = "panic" /\ UNCHANGED <<utf8c, m, yielded>>
                     ELSE /\ pc' = "returned"
                          /\ m' = r.m
                          /\ yielded' = Append(yielded, r.m)
          IN Returns(FindLeftmostAt(built.nfa, vcfg, h, start, end, cache,
                                    fr.slots))
    /\ UNCHANGED <<utf8c, compiler, earlier, calls, hirs, ccfg, vcfg, built, iter, ret,
                   none_seen>>

StaleSpec == StaleInit /\ [][Search]_vars

\* The same call with a Cache and Captures just created.
Fresh ==
    FindLeftmostAt(built.nfa, vcfg, text, fr.start, fr.end,
                   CacheNew(built.nfa), CapturesNew(built.nfa))

StaleGroupSlots ==
    /\ pc = "returned"
    /\ IsSome(m)
    /\ fr.slots # Fresh.fr.slots

\* ------------------------------------------------------------------ C17

\* C17: find_leftmost_at never fails: at its end, whenever a match was
\* recorded, the two whole-match slots of the matched pattern exist and
\* hold a position, under every configuration of the compiler.
C17_SearchNeverFails ==
    pc = "ret" => ~ReturnPanics(built.nfa, fr)

\* What holds instead: the search does not fail when the automaton was
\* compiled with its Capture states.
C17_NeverFailsWithCaptures ==
    (pc = "ret" /\ GetCaptures(ccfg)) => ~ReturnPanics(built.nfa, fr)

\* Without Capture states every search that records a match fails, under
\* captures(false) as under reverse(true).
C17_FailsWithoutCaptures ==
    /\ (pc = "ret" /\ ~GetCaptures(ccfg) /\ IsSome(fr.matched_pid)) =>
           ReturnPanics(built.nfa, fr)
    /\ pc = "built" =>
           FindLeftmostAt(Compile(CfgReverse, <<a>>).nfa, vcfg, <<ByteA>>,
                          0, 1, CacheNew(Compile(CfgReverse, <<a>>).nfa),
                          CapturesNew(Compile(CfgReverse, <<a>>).nfa)).panics

\* ------------------------------------------------------------------ C18

\* A machine that sets up a configuration and builds.  The configurations
\* start with shrink(false): the range trie of a shrinking reverse
\* compilation is outside this model, and shrink is read nowhere else.
BuildLists ==
    {<<>>, <<a, b>>, <<a, ab>>, <<Grp(1, a), b>>, <<a, b, a>>,
     <<a, b, ab, a>>, <<a, b, ab, a, b>>}
    \cup {<<e>> : e \in Atoms \cup Looks
                      \cup {GreekAndHands, LettersAndSnowman,
                            HirConcat(<<Grp(1, a), Grp(2, b)>>),
                            HirAlternation(<<Grp(1, a), Grp(2, b)>>),
                            Grp(1, HirConcat(<<a, Grp(2, b)>>)),
                            HirGroup(NonCapturing, ab)}}

BuildConfigs ==
    {[ConfigDefault EXCEPT !.shrink = Some(FALSE), !.utf8 = utf8,
                           !.unanchored_prefix = prefix] :
        utf8 \in {None, Some(FALSE)}, prefix \in {None, Some(FALSE)}}

BuildInit ==
    /\ hirs \in BuildLists
    /\ ccfg \in BuildConfigs
    /\ vcfg = VmConfigDefault
    /\ compiler = NewCompiler(ConfigDefault)
    /\ earlier = <<>>
    /\ calls = <<>>
    /\ utf8c = NoUtf8
    /\ built = CompileResult("none", NfaEmpty)
    /\ text = <<>>
    /\ pc = "new"
    /\ iter = [last_end |-> 0, last_match |-> None]
    /\ cache = NoCache
    /\ fr = NoFrame
    /\ m = None
    /\ ret = None
    /\ yielded = <<>>
    /\ none_seen = FALSE

\* Config::reverse
SetReverse ==
    /\ pc = "new"
    /\ \E yes \in BOOLEAN : ccfg' = [ccfg EXCEPT !.reverse = Some(yes)]
    /\ UNCHANGED <<utf8c, compiler, earlier, calls, hirs, vcfg, built, text, pc, iter,
                   cache, fr, m, ret, yielded, none_seen>>

\* Config::captures
SetCaptures ==
    /\ pc = "new"
    /\ \E yes \in BOOLEAN : ccfg' = [ccfg EXCEPT !.captures = Some(yes)]
    /\ UNCHANGED <<utf8c, compiler, earlier, calls, hirs, vcfg, built, text, pc, iter,
                   cache, fr, m, ret, yielded, none_seen>>

BuildSpec == BuildInit /\ [][SetReverse \/ SetCaptures \/ Build]_vars

\* C18: the build fails with too-many-patterns exactly when there are more
\* patterns than PatternID::LIMIT; the compiler has then added no state,
\* and no automaton is returned.
C18_TooManyPatterns ==
    pc \in {"built", "failed"} =>
        /\ built.err = "too_many_patterns" <=> Len(hirs) > PatternIDLimit
        /\ built.err = "too_many_patterns" =>
               /\ pc = "failed"
               /\ built.nfa = NfaEmpty
               /\ BuildManyFromHirWith(NewCompiler(ConfigDefault), ccfg,
                                       hirs).compiler.states = <<>>
        /\ Len(hirs) <= PatternIDLimit =>
               /\ pc = "built"
               /\ built.err = "ok"
               /\ built.nfa.states # <<>>

\* A build of one pattern more than the limit has failed, under reverse.
C18_Witness ==
    /\ pc = "failed"
    /\ built.err = "too_many_patterns"
    /\ Len(hirs) = PatternIDLimit + 1
    /\ GetReverse(ccfg)

\* ------------------------------------------------------------------ C19

\* The number of capturing groups written in an expression.
RECURSIVE CapturingGroups(_)
CapturingGroups(e) ==
    CASE e.kind = "Group" ->
            (IF e.group.t = "CaptureIndex" THEN 1 ELSE 0)
                + CapturingGroups(e.hir)
      [] e.kind = "Repetition" -> CapturingGroups(e.hir)
      [] e.kind \in {"Concat", "Alternation"} ->
            SumSeq([i \in 1..Len(e.es) |-> CapturingGroups(e.es[i])])
      [] OTHER -> 0

\* The Capture states of an automaton, and those that write a given slot.
CaptureStates(nfa) ==
    {sid \in 0..(Len(nfa.states) - 1) : At(nfa.states, sid).k = "Capture"}
CapturesOfSlot(nfa, slot) ==
    {sid \in CaptureStates(nfa) : At(nfa.states, sid).slot = slot}

\* C19: once reverse is set to true, get_captures() is false, whatever
\* captures was set to, before or after; an automaton built then has no
\* Capture state.  With reverse off and captures not set, every pattern
\* is entered through the Capture state of the first slot of its group 0,
\* its Match state is entered from the Capture state of the second, and
\* every capturing group written in the patterns has its two Capture
\* states, one for each of its slots.
C19_CapturesOffInReverse ==
    /\ GetReverse(ccfg) => ~GetCaptures(ccfg)
    /\ (pc = "built" /\ GetReverse(ccfg)) => CaptureStates(built.nfa) = {}
    /\ (/\ pc = "built"
        /\ ~GetReverse(ccfg)
        /\ ccfg.captures = None
        /\ hirs # <<>>) =>
           LET nfa == built.nfa
           IN /\ GetCaptures(ccfg)
              /\ Cardinality(CaptureStates(nfa))
                     = 2 * (Len(hirs)
                            + SumSeq([i \in 1..Len(hirs) |->
                                         CapturingGroups(hirs[i])]))
              /\ Len(nfa.patterns_to_slots) = Len(hirs)
              /\ \A pid \in 0..(Len(hirs) - 1) :
                    LET slots == PatternSlots(nfa, pid)
                        entry == At(nfa.states, At(nfa.start_pattern, pid))
                    IN /\ slots.end - slots.start
                              = 2 * (1 + CapturingGroups(hirs[pid + 1]))
                       /\ entry.k = "Capture"
                       /\ entry.slot = slots.start
                       /\ \A slot \in slots.start..(slots.end - 1) :
                             Cardinality(CapturesOfSlot(nfa, slot)) = 1
                       /\ \E sid \in CapturesOfSlot(nfa, slots.start + 1) :
                             At(nfa.states, At(nfa.states, sid).next)
                                 = SMatch(pid)

\* An automaton of a pattern with groups, built after captures(true) and
\* reverse(true) were both set.
C19_Witness ==
    /\ pc = "built"
    /\ ccfg.reverse = Some(TRUE)
    /\ ccfg.captures = Some(TRUE)
    /\ Len(hirs) = 1
    /\ CapturingGroups(hirs[1]) = 2
    /\ CaptureStates(built.nfa) = {}

\* An automaton of two patterns, one with a group, built with reverse off
\* and captures not set.
C19_Bracketed ==
    /\ pc = "built"
    /\ ccfg.reverse = Some(FALSE)
    /\ ccfg.captures = None
    /\ hirs = <<Grp(1, a), b>>
    /\ Cardinality(CaptureStates(built.nfa)) = 6

\* ------------------------------------------------------------------ C20

\* The automaton, entered at sid, takes the byte string to the state `to`
\* and not past it.
RECURSIVE Takes(_, _, _, _)
Takes(nfa, sid, bytes, to) ==
    LET s == At(nfa.states, sid)
    IN CASE sid = to -> bytes = <<>>
         [] sid # to /\ s.k = "Range" ->
               /\ bytes # <<>>
               /\ s.range.start <= Head(bytes) /\ Head(bytes) <= s.range.end
               /\ Takes(nfa, s.range.next, Tail(bytes), to)
         [] sid # to /\ s.k = "Sparse" ->
               /\ bytes # <<>>
               /\ \E i \in 1..Len(s.ranges) :
                     /\ s.ranges[i].start <= Head(bytes)
                     /\ Head(bytes) <= s.ranges[i].end
                     /\ Takes(nfa, s.ranges[i].next, Tail(bytes), to)
         [] sid # to /\ s.k = "Union" ->
               \E i \in 1..Len(s.alternates) :
                   Takes(nfa, s.alternates[i], bytes, to)
         [] OTHER -> FALSE

\* Every scalar value.
AllScalars == HirAnyChar.ranges

\* The automaton with the state sid made its end: what leads to a Match
\* state in it is what leads to sid in the automaton.
EndingAt(nfa, sid) == [nfa EXCEPT !.states[sid + 1] = SMatch(0)]

\* The entry of the patterns: of the one pattern, or the Union of all.
PatternsEntry(nfa) ==
    IF Len(nfa.start_pattern) = 1 THEN At(nfa.start_pattern, 0)
    ELSE CHOOSE sid \in 0..(Len(nfa.states) - 1) :
             At(nfa.states, sid) = SUnion(nfa.start_pattern)

\* C20: the anchored start is the entry of the patterns.  When the prefix
\* is compiled in (it is asked for and some pattern is not anchored at its
\* start), the unanchored start is a Union of two alternates: the first is
\* the entry of the patterns, the second leads back to the Union after
\* exactly one byte through Range 0x00-0xFF with utf8 off, and with utf8
\* on after exactly the UTF-8 encoding of one scalar value (read backwards
\* in a reverse automaton).  Otherwise the two starts are the same.
C20_UnanchoredPrefix ==
    (pc = "built" /\ hirs # <<>>) =>
        LET nfa == built.nfa
            u == nfa.start_unanchored
            loop == At(nfa.states, u)
            again == loop.alternates[2]
            one == EndingAt(nfa, u)
        IN /\ nfa.start_anchored = PatternsEntry(nfa)
           /\ (~GetUnanchoredPrefix(ccfg) \/ AllAnchored(hirs)) =>
                  u = nfa.start_anchored
           /\ (GetUnanchoredPrefix(ccfg) /\ ~AllAnchored(hirs)) =>
                  /\ loop.k = "Union"
                  /\ Len(loop.alternates) = 2
                  /\ loop.alternates[1] = nfa.start_anchored
                  /\ again # u
                  /\ ~GetUtf8(ccfg) =>
                         At(nfa.states, again) = SRange(Transition(0, 255, u))
                  /\ (GetUtf8(ccfg) /\ ~GetReverse(ccfg)) =>
                         /\ \A path \in BytePaths(one, again) :
                               PathInClass(AllScalars, path)
                         /\ ByteDeterministic(nfa)
                         /\ CountAccepted(one, again) = CountScalars(AllScalars)
                         /\ \A bytes \in SampleStrings :
                               Takes(nfa, again, bytes, u)
                                   <=> IsEncodingIn(AllScalars, bytes)
                  /\ (GetUtf8(ccfg) /\ GetReverse(ccfg)) =>
                         \A bytes \in SampleStrings :
                             Takes(nfa, again, Reverse(bytes), u)
                                 <=> IsEncodingIn(AllScalars, bytes)

\* Two patterns built forwards with utf8 on and the prefix compiled in.
C20_Witness ==
    /\ pc = "built"
    /\ hirs = <<a, b>>
    /\ GetUtf8(ccfg)
    /\ GetUnanchoredPrefix(ccfg)
    /\ ~GetReverse(ccfg)
    /\ built.nfa.start_unanchored # built.nfa.start_anchored
    /\ Takes(built.nfa, At(built.nfa.states,
                           built.nfa.start_unanchored).alternates[2],
             <<226, 152, 131>>, built.nfa.start_unanchored)

\* ------------------------------------------------------------------ C21

\* No prefix is asked for, or every pattern is anchored at its start.
NoPrefix ==
    \/ ~GetUnanchoredPrefix(ccfg)
    \/ \A i \in 1..Len(hirs) : IsAnchoredStart(hirs[i])

\* C21: when no unanchored prefix is added, the two starts of the final
\* automaton are the same state; the placeholder compiled in place of the
\* prefix is the Empty state 0 of the compiler, which leads to the entry
\* of the patterns and has no state of its own in the final automaton:
\* the automaton has one state for each intermediate state that is not
\* Empty, and each of them is reached from the anchored start.
C21_NoPrefixNoState ==
    (pc = "built" /\ hirs # <<>> /\ NoPrefix) =>
        LET nfa == built.nfa
            states == Compiled(ccfg).states
        IN /\ nfa.start_unanchored = nfa.start_anchored
           /\ states[1].k = "Empty"
           /\ Len(nfa.states)
                  = Cardinality({i \in 1..Len(states) : states[i].k # "Empty"})
           /\ Reachable(nfa, {nfa.start_anchored})
                  = 0..(Len(nfa.states) - 1)

\* The two patterns of the test many_start_pattern, built without prefix:
\* five states, both starts at the Union.
C21_Witness ==
    /\ pc = "built"
    /\ hirs = <<a, b>>
    /\ ~GetUnanchoredPrefix(ccfg)
    /\ ~GetCaptures(ccfg)
    /\ Len(built.nfa.states) = 5
    /\ built.nfa.start_anchored = 4
    /\ built.nfa.start_unanchored = 4

\* A pattern anchored at its start, built with the prefix asked for.
C21_AnchoredPattern ==
    /\ pc = "built"
    /\ GetUnanchoredPrefix(ccfg)
    /\ hirs = <<HirConcat(<<HirAnchor("StartText"), a>>)>>
    /\ built.nfa.start_unanchored = built.nfa.start_anchored

\* ------------------------------------------------------------------ C22

\* A machine that builds one literal without prefix and without Capture
\* states: the scalars at and next to the ends of the encoded lengths, and
\* single bytes.
LiteralChars ==
    {v \in UNION {{x - 1, x, x + 1} : x \in ClassPoints} : IsScalar(v)}

Literals ==
    {HirChar(ch) : ch \in LiteralChars} \cup {HirByte(v) : v \in {0, 97, 128, 255}}

LiteralInit ==
    /\ \E e \in Literals : hirs = <<e>>
    /\ ccfg \in {CfgTest, [CfgTest EXCEPT !.utf8 = Some(FALSE)], CfgReverse}
    /\ vcfg = VmConfigDefault
    /\ compiler = NewCompiler(ConfigDefault)
    /\ earlier = <<>>
    /\ calls = <<>>
    /\ utf8c = NoUtf8
    /\ built = CompileResult("none", NfaEmpty)
    /\ text = <<>>
    /\ pc = "new"
    /\ iter = [last_end |-> 0, last_match |-> None]
    /\ cache = NoCache
    /\ fr = NoFrame
    /\ m = None
    /\ ret = None
    /\ yielded = <<>>
    /\ none_seen = FALSE

LiteralSpec == LiteralInit /\ [][Build]_vars

\* The bytes a literal stands for.
BytesOfLiteral(e) == IF e.unicode THEN EncodeUtf8(e.v) ELSE <<e.v>>

\* One Range state for each byte, each leading to the next state, and a
\* Match state of pattern 0 at the end.
ChainOf(bytes) ==
    [i \in 1..(Len(bytes) + 1) |->
        IF i <= Len(bytes) THEN SRange(Transition(bytes[i], bytes[i], i))
        ELSE SMatch(0)]

\* C22: a literal whose encoding has k bytes, compiled forwards without
\* prefix and without Capture states, gives exactly k Range states of one
\* byte each, in the order of the bytes, each leading to the next, and then
\* one Match state; the automaton starts at the first of them.  `a` gives
\* Range('a','a') and Match.
C22_LiteralIsByteChain ==
    (pc = "built" /\ ~GetReverse(ccfg)) =>
        /\ built.nfa.states = ChainOf(BytesOfLiteral(hirs[1]))
        /\ Len(built.nfa.states) = Len(BytesOfLiteral(hirs[1])) + 1
        /\ built.nfa.start_anchored = 0
        /\ built.nfa.start_unanchored = 0
        /\ hirs = <<a>> =>
               built.nfa.states
                   = <<SRange(Transition(ByteA, ByteA, 1)), SMatch(0)>>

\* The snowman of the test compile_literal: three Range states and Match.
C22_Witness ==
    /\ pc = "built"
    /\ hirs = <<HirChar(9731)>>
    /\ ~GetReverse(ccfg)
    /\ built.nfa.states
           = <<SRange(Transition(226, 226, 1)), SRange(Transition(152, 152, 2)),
               SRange(Transition(131, 131, 3)), SMatch(0)>>

\* Compiled in reverse, the chain is that of the bytes from the last to
\* the first.
LiteralReversed ==
    (pc = "built" /\ GetReverse(ccfg)) =>
        built.nfa.states = ChainOf(Reverse(BytesOfLiteral(hirs[1])))

\* ------------------------------------------------------------------ C23

\* Option::or: the first if it is set, else the second.
OptionOr(x, y) == IF x # None THEN x ELSE y

\* A variant of overwrite in which a value already set wins.
OverwriteKeepsOld(self, o) ==
    [f \in DOMAIN self |-> OptionOr(self[f], o[f])]

\* Config::overwrite of the compiler and of the PikeVM: each field of `o`
\* that is set, else the field of self.
Overwrite(self, o) ==
    [f \in DOMAIN self |-> OptionOr(o[f], self[f])]

MaxCalls == 3
SomeLimit == 10

\* The arguments of configure: nothing set, one option set, and some with
\* two set.
OneOption(f, v) == [ConfigDefault EXCEPT ![f] = Some(v)]

ConfigArgs ==
    {ConfigDefault}
    \cup {OneOption(f, v) :
             f \in {"reverse", "utf8", "shrink", "captures", "unanchored_prefix"},
             v \in BOOLEAN}
    \cup {OneOption("nfa_size_limit", v) : v \in {None, Some(SomeLimit)}}
    \cup {[ConfigDefault EXCEPT !.reverse = Some(TRUE), !.captures = Some(TRUE)],
          [ConfigDefault EXCEPT !.utf8 = Some(FALSE), !.shrink = Some(FALSE)]}

VmConfigArgs ==
    [anchored : {None, Some(TRUE), Some(FALSE)},
     utf8 : {None, Some(TRUE), Some(FALSE)}]

ConfigInit ==
    /\ ccfg = ConfigDefault
    /\ vcfg = VmConfigDefault
    /\ calls = <<>>
    /\ utf8c = NoUtf8
    /\ hirs = <<>>
    /\ compiler = NewCompiler(ConfigDefault)
    /\ earlier = <<>>
    /\ built = CompileResult("none", NfaEmpty)
    /\ text = <<>>
    /\ pc = "new"
    /\ iter = [last_end |-> 0, last_match |-> None]
    /\ cache = NoCache
    /\ fr = NoFrame
    /\ m = None
    /\ ret = None
    /\ yielded = <<>>
    /\ none_seen = FALSE

\* thompson::Builder::configure.
BuilderConfigure ==
    /\ Len(calls) < MaxCalls
    /\ \E config \in ConfigArgs :
          /\ ccfg' = Overwrite(ccfg, config)
          /\ calls' = Append(calls, [of |-> "thompson", config |-> config])
    /\ UNCHANGED <<utf8c, compiler, earlier, hirs, vcfg, built, text, pc, iter,
                   cache, fr, m, ret, yielded, none_seen>>

\* pikevm::Builder::configure.
VmBuilderConfigure ==
    /\ Len(calls) < MaxCalls
    /\ \E config \in VmConfigArgs :
          /\ vcfg' = Overwrite(vcfg, config)
          /\ calls' = Append(calls, [of |-> "pikevm", config |-> config])
    /\ UNCHANGED <<utf8c, compiler, earlier, hirs, ccfg, built, text, pc, iter,
                   cache, fr, m, ret, yielded, none_seen>>

ConfigSpec == ConfigInit /\ [][BuilderConfigure \/ VmBuilderConfigure]_vars

\* What the most recent of the first n calls on builder `of` that set
\* option f gave it; None when none of them set it.
RECURSIVE LastSet(_, _, _)
LastSet(of, f, n) ==
    IF n = 0 THEN None
    ELSE IF calls[n].of = of /\ calls[n].config[f] # None
         THEN calls[n].config[f]
         ELSE LastSet(of, f, n - 1)

MostRecent(of, f, default) == UnwrapOr(LastSet(of, f, Len(calls)), default)

\* Every option but captures reads as the most recent value given to it,
\* or as its default.
OthersAreMostRecent ==
    /\ GetReverse(ccfg) = MostRecent("thompson", "reverse", FALSE)
    /\ GetUtf8(ccfg) = MostRecent("thompson", "utf8", TRUE)
    /\ GetNfaSizeLimit(ccfg) = MostRecent("thompson", "nfa_size_limit", None)
    /\ GetShrink(ccfg) = MostRecent("thompson", "shrink", TRUE)
    /\ GetUnanchoredPrefix(ccfg)
           = MostRecent("thompson", "unanchored_prefix", TRUE)
    /\ VmGetAnchored(vcfg) = MostRecent("pikevm", "anchored", FALSE)
    /\ VmGetUtf8(vcfg) = MostRecent("pikevm", "utf8", TRUE)

\* C23, as the specification states it: after any sequence of configure
\* calls every option, captures among them, reads as the value of the most
\* recent call that set it, or as its default.
C23_EffectiveIsMostRecent ==
    /\ OthersAreMostRecent
    /\ GetCaptures(ccfg) = MostRecent("thompson", "captures", TRUE)

\* C23: after any sequence of configure calls the value stored for every
\* option is that of the most recent call that set it, and unset when no
\* call did; every option but captures reads as that value or as its
\* default; captures reads as false whenever reverse reads as true, and as
\* its most recent value, or true, otherwise.
C23_StoredIsMostRecent ==
    /\ \A f \in DOMAIN ccfg : ccfg[f] = LastSet("thompson", f, Len(calls))
    /\ \A f \in DOMAIN vcfg : vcfg[f] = LastSet("pikevm", f, Len(calls))
    /\ OthersAreMostRecent
    /\ GetCaptures(ccfg)
           = (~MostRecent("thompson", "reverse", FALSE)
              /\ MostRecent("thompson", "captures", TRUE))

\* utf8 is set to false, then to true, and a last call leaves it unset.
C23_Witness ==
    /\ Len(calls) = 3
    /\ calls[1] = [of |-> "thompson", config |-> OneOption("utf8", FALSE)]
    /\ calls[2] = [of |-> "thompson", config |-> OneOption("utf8", TRUE)]
    /\ calls[3] = [of |-> "thompson", config |-> OneOption("shrink", FALSE)]
    /\ ccfg.utf8 = Some(TRUE)
    /\ ~GetShrink(ccfg)

\* A call that sets only reverse takes captures, set to true before it,
\* to false.
ReverseTurnsCapturesOff ==
    /\ Len(calls) = 2
    /\ calls[1].config = OneOption("captures", TRUE)
    /\ calls[2].config = OneOption("reverse", TRUE)
    /\ calls[1].of = "thompson" /\ calls[2].of = "thompson"
    /\ ~GetCaptures(ccfg)

\* ------------------------------------------------------------------ C24

\* The states an epsilon closure started at sid inserts at position `at`:
\* sid, and what Union, Capture and satisfied Look states lead to.
EpsilonNext(nfa, haystack, at, sid) ==
    LET s == At(nfa.states, sid)
    IN CASE s.k = "Union" -> {s.alternates[i] : i \in 1..Len(s.alternates)}
         [] s.k = "Capture" -> {s.next}
         [] s.k = "Look" ->
                IF LookMatches(s.look, haystack, at) THEN {s.next} ELSE {}
         [] OTHER -> {}

RECURSIVE EpsilonReach(_, _, _, _)
EpsilonReach(nfa, haystack, at, seen) ==
    LET more == seen \cup UNION {EpsilonNext(nfa, haystack, at, sid) : sid \in seen}
    IN IF more = seen THEN seen ELSE EpsilonReach(nfa, haystack, at, more)

\* What the thread sid adds to the next frontier when it is stepped at
\* `at`: the closure of the target of its transition on the byte there.
Contribution(nfa, haystack, at, sid) ==
    LET s == At(nfa.states, sid)
        next == CASE s.k = "Range" ->
                         IF TransitionMatches(s.range, haystack, at)
                         THEN Some(s.range.next) ELSE None
                  [] s.k = "Sparse" -> SparseMatches(s.ranges, haystack, at)
                  [] OTHER -> None
    IN IF next = None THEN {}
       ELSE EpsilonReach(nfa, haystack, at + 1, next)

\* The current frontier of a pass once the start state has been added.
Seeded(nfa, cfg, haystack, f, c) == Seed(nfa, cfg, haystack, f, c).nlist

\* The indexes of the Match states of a frontier.
MatchIndexes(nfa, threads) ==
    {i \in 0..(Len(threads.set) - 1) :
        At(nfa.states, At(threads.set, i)).k = "Match"}


\* The next frontier a pass leaves: the next list when the loop is left,
\* the current list after the swap otherwise.
NextFrontier(r) == IF r.over THEN r.cache.nlist ELSE r.cache.clist

InPass == pc = "loop" /\ ~LoopBreaks(fr, cache, VmAnchored(vcfg, built.nfa))

\* C24: in one pass over the frontier, when i is the first index of a Match
\* state, the pattern of that state and the capture vector of its thread
\* become the recorded match, whatever was recorded before; the next
\* frontier holds what the threads below i add and nothing that only a
\* thread above i would add.  With no Match state in the frontier, the
\* recorded match stays and every thread adds its successors.
C24_MatchCutsFrontier ==
    InPass =>
        LET nfa == built.nfa
            clist == Seeded(nfa, vcfg, text, fr, cache)
            hits == MatchIndexes(nfa, clist)
            r == LoopBody(nfa, vcfg, text, fr, cache)
            Adds(n) ==
                UNION {Contribution(nfa, text, fr.at, At(clist.set, j)) :
                          j \in 0..(n - 1)}
        IN IF hits # {}
           THEN LET i == CHOOSE x \in hits : \A y \in hits : x <= y
                    sid == At(clist.set, i)
                IN /\ r.fr.matched_pid = Some(At(nfa.states, sid).id)
                   /\ r.fr.slots = ThreadsCaps(clist, sid)
                   /\ RangeOf(NextFrontier(r).set) = Adds(i)
           ELSE /\ r.fr.matched_pid = fr.matched_pid
                /\ RangeOf(NextFrontier(r).set) = Adds(Len(clist.set))

\* A Match state is followed in the frontier by a thread that has a
\* transition on the byte at hand and whose successors no thread before the
\* Match state adds.
CutsLowerThread ==
    /\ InPass
    /\ LET nfa == built.nfa
           clist == Seeded(nfa, vcfg, text, fr, cache)
           hits == MatchIndexes(nfa, clist)
       IN \E i \in hits :
             /\ \A y \in hits : i <= y
             /\ \E j \in (i + 1)..(Len(clist.set) - 1) :
                   \E sid \in Contribution(nfa, text, fr.at, At(clist.set, j)) :
                      \A k \in 0..(i - 1) :
                         sid \notin Contribution(nfa, text, fr.at, At(clist.set, k))

\* A match is recorded in a pass that starts with one recorded earlier.
ReplacesEarlier ==
    /\ InPass
    /\ IsSome(fr.matched_pid)
    /\ MatchIndexes(built.nfa, Seeded(built.nfa, vcfg, text, fr, cache)) # {}
    /\ LoopBody(built.nfa, vcfg, text, fr, cache).fr.slots # fr.slots

\* a|ab on "ab": at the second byte the Match state of the first alternate
\* precedes the thread of `b`; `a*` on "aa": each pass records a longer
\* match.
C24_Witness ==
    \/ (CutsLowerThread /\ hirs = <<HirAlternation(<<a, ab>>)>>)
    \/ (ReplacesEarlier /\ hirs = <<Rep(ZeroOrMore, TRUE, a)>>)

\* ------------------------------------------------------------------ C25

NoDuplicates(seq) == \A i, j \in 1..Len(seq) : seq[i] = seq[j] => i = j

IsPrefixOf(s, t) == Len(s) <= Len(t) /\ SubSeq(t, 1, Len(s)) = s

\* What a closure, or a step, made of the list it was given: the list is
\* extended at its end, holds every state once and no more entries than the
\* automaton has states, and the loop over the stack has come to its end.
\* (epsilon_closure_step expands a state when, and only when, the insertion
\* of its ID succeeds.)
InsertsOnce(nfa, before, after) ==
    /\ IsPrefixOf(before.set, after.nlist.set)
    /\ NoDuplicates(after.nlist.set)
    /\ Len(after.nlist.set) <= Len(nfa.states)
    /\ after.stack = <<>>

\* The cache of a pass as the thread of index j finds it: the threads
\* below j have been stepped.
BeforeThread(nfa, haystack, f, c, j) ==
    ForThreads(nfa, haystack, f.at, [c EXCEPT !.clist.set = SubSeq(@, 1, j)],
               f.slots, 0).cache

\* C25: the frontiers of every reachable state hold every state at most
\* once, so never more entries than the automaton has states; the closure
\* that adds the start state, and the step of every thread of a pass, come
\* to their end with an empty stack and add to the list they fill only
\* states that it did not hold, each once, automata with epsilon cycles
\* included.
C25_InsertedOnce ==
    /\ NoDuplicates(cache.clist.set) /\ NoDuplicates(cache.nlist.set)
    /\ pc \in {"loop", "ret"} =>
          /\ Len(cache.clist.set) <= Len(built.nfa.states)
          /\ Len(cache.nlist.set) <= Len(built.nfa.states)
    /\ InPass =>
          LET nfa == built.nfa
              seed == Seed(nfa, vcfg, text, fr, cache)
              seeded == [cache EXCEPT !.clist = seed.nlist, !.stack = seed.stack]
          IN /\ InsertsOnce(nfa, cache.clist, seed)
             /\ \A j \in 0..(Len(seeded.clist.set) - 1) :
                   LET c == BeforeThread(nfa, text, fr, seeded, j)
                       sid == At(seeded.clist.set, j)
                   IN InsertsOnce(nfa, c.nlist,
                          Step(nfa, text, fr.at,
                               Closure(c.nlist, ThreadsCaps(c.clist, sid), c.stack),
                               fr.slots, sid).cl)

\* The automaton has an epsilon cycle through sid at this position.
OnEpsilonCycle(nfa, haystack, at, sid) ==
    sid \in EpsilonReach(nfa, haystack, at, EpsilonNext(nfa, haystack, at, sid))

\* A pass over an automaton with an epsilon cycle: the closure of the start
\* state goes through a state of the cycle, and ends.
C25_Witness ==
    /\ InPass
    /\ hirs = <<Rep(ZeroOrMore, TRUE, Grp(1, Rep(ZeroOrMore, TRUE, a)))>>
    /\ text = <<ByteA, ByteA>>
    /\ fr.at = 1
    /\ \E sid \in RangeOf(cache.clist.set) :
          OnEpsilonCycle(built.nfa, text, fr.at, sid)
    /\ \E sid \in EpsilonReach(built.nfa, text, fr.at, {built.nfa.start_anchored}) :
          OnEpsilonCycle(built.nfa, text, fr.at, sid)

\* ------------------------------------------------------------------ C26

\* The closure written with recursion in place of the explicit stack: the
\* slots are handed down by value, so that a write made under one alternate
\* of a Union is unknown to its siblings.  `threads` is the list being
\* filled.
RECURSIVE ClosureByValue(_, _, _, _, _, _)
RECURSIVE AlternatesByValue(_, _, _, _, _, _)
ClosureByValue(nfa, haystack, at, threads, slots, sid) ==
    IF SetContains(threads.set, sid) THEN threads
    ELSE LET s == At(nfa.states, sid)
             ins == [threads EXCEPT !.set = Append(@, sid)]
         IN CASE s.k \in {"Fail", "Range", "Sparse", "Match"} ->
                    [ins EXCEPT !.caps = SetAt(@, sid, slots)]
              [] s.k = "Look" ->
                    IF ~LookMatches(s.look, haystack, at) THEN ins
                    ELSE ClosureByValue(nfa, haystack, at, ins, slots, s.next)
              [] s.k = "Union" ->
                    AlternatesByValue(nfa, haystack, at, ins, slots, s.alternates)
              [] s.k = "Capture" ->
                    ClosureByValue(nfa, haystack, at, ins,
                        IF s.slot < Len(slots) THEN SetAt(slots, s.slot, Some(at))
                        ELSE slots,
                        s.next)

AlternatesByValue(nfa, haystack, at, threads, slots, alternates) ==
    IF alternates = <<>> THEN threads
    ELSE AlternatesByValue(nfa, haystack, at,
             ClosureByValue(nfa, haystack, at, threads, slots, Head(alternates)),
             slots, Tail(alternates))

\* A closure called with the list `before`, the scratch slots and an empty
\* stack: the list it leaves is that of ClosureByValue, the scratch slots
\* are what they were, and the stack is empty.
ScopesSlots(nfa, haystack, at, before, slots, sid, after) ==
    /\ after.nlist = ClosureByValue(nfa, haystack, at, before, slots, sid)
    /\ after.thread_caps = slots
    /\ after.stack = <<>>

\* The state a thread steps to on the byte at `at`, if any.
StepsTo(nfa, haystack, at, sid) ==
    LET s == At(nfa.states, sid)
    IN CASE s.k = "Range" ->
                IF TransitionMatches(s.range, haystack, at)
                THEN Some(s.range.next) ELSE None
         [] s.k = "Sparse" -> SparseMatches(s.ranges, haystack, at)
         [] OTHER -> None

\* C26: in every closure of a pass, that of the start state and that of
\* each thread's successor, a slot written by a Capture state is restored
\* before a sibling alternate of a Union above it is explored: every thread
\* gets the slots written on its own path and no other; when the closure
\* returns, the scratch slots are what they were at the call and the stack
\* is empty.
C26_SlotWritesAreScoped ==
    InPass =>
        LET nfa == built.nfa
            seeds == Seeds(fr, cache, VmAnchored(vcfg, nfa))
            seed == Seed(nfa, vcfg, text, fr, cache)
            seeded == [cache EXCEPT !.clist = seed.nlist, !.stack = seed.stack]
        IN /\ cache.stack = <<>>
           /\ seeds => ScopesSlots(nfa, text, fr.at, cache.clist, fr.slots,
                                   nfa.start_anchored, seed)
           /\ \A j \in 0..(Len(seeded.clist.set) - 1) :
                 LET c == BeforeThread(nfa, text, fr, seeded, j)
                     sid == At(seeded.clist.set, j)
                     next == StepsTo(nfa, text, fr.at, sid)
                     caps == ThreadsCaps(c.clist, sid)
                 IN IsSome(next) =>
                        ScopesSlots(nfa, text, fr.at + 1, c.nlist, caps,
                            Unwrap(next),
                            Step(nfa, text, fr.at,
                                 Closure(c.nlist, caps, c.stack),
                                 fr.slots, sid).cl)

\* (a)|(b) at position 0: the thread of `a` has the opening slot of group
\* 1 and the thread of `b` does not; (a|b)+ on "aa": a closure writes a slot
\* that held a position and puts it back for the thread that leaves the loop.
C26_Witness ==
    /\ InPass
    /\ LET nfa == built.nfa
           clist == Seeded(nfa, vcfg, text, fr, cache)
       IN \/ /\ hirs = <<HirAlternation(<<Grp(1, a), Grp(2, b)>>)>>
             /\ fr.at = 0
             /\ \E s1, s2 \in RangeOf(clist.set) :
                   /\ At(nfa.states, s1).k = "Range"
                   /\ At(nfa.states, s2).k = "Range"
                   /\ At(ThreadsCaps(clist, s1), 2) = Some(0)
                   /\ At(ThreadsCaps(clist, s2), 2) = None
                   /\ At(ThreadsCaps(clist, s2), 4) = Some(0)
          \/ /\ hirs = <<Rep(OneOrMore, TRUE, Grp(1, HirAlternation(<<a, b>>)))>>
             /\ text = <<ByteA, ByteA>>
             /\ fr.at = 1
             /\ \E s1, s2 \in RangeOf(cache.clist.set) :
                   /\ At(nfa.states, s1).k = "Range"
                   /\ At(nfa.states, s2).k = "Match"
                   /\ At(ThreadsCaps(cache.clist, s1), 2) = Some(1)
                   /\ At(ThreadsCaps(cache.clist, s2), 2) = Some(0)

\* ------------------------------------------------------------------ C27

\* The states of a depth-first walk from sid in pre-order, the alternates
\* of a Union in the order they are listed, a state already in `seen` not
\* being entered again.  The result is `seen` with the new states after it.
RECURSIVE PreOrder(_, _, _, _, _)
RECURSIVE PreOrderOfAll(_, _, _, _, _)
PreOrder(nfa, haystack, at, seen, sid) ==
    IF \E i \in 1..Len(seen) : seen[i] = sid THEN seen
    ELSE LET s == At(nfa.states, sid)
             here == Append(seen, sid)
         IN CASE s.k = "Union" ->
                    PreOrderOfAll(nfa, haystack, at, here, s.alternates)
              [] s.k = "Capture" -> PreOrder(nfa, haystack, at, here, s.next)
              [] s.k = "Look" ->
                    IF LookMatches(s.look, haystack, at)
                    THEN PreOrder(nfa, haystack, at, here, s.next)
                    ELSE here
              [] OTHER -> here

PreOrderOfAll(nfa, haystack, at, seen, sids) ==
    IF sids = <<>> THEN seen
    ELSE PreOrderOfAll(nfa, haystack, at,
             PreOrder(nfa, haystack, at, seen, Head(sids)), Tail(sids))

\* The successors, on the byte at `at`, of the first n threads of a list,
\* in the order of the threads.
RECURSIVE SuccessorsOf(_, _, _, _, _)
SuccessorsOf(nfa, haystack, at, set, n) ==
    IF n = 0 THEN <<>>
    ELSE LET next == StepsTo(nfa, haystack, at, set[n])
             below == SuccessorsOf(nfa, haystack, at, set, n - 1)
         IN IF IsSome(next) THEN Append(below, Unwrap(next)) ELSE below

\* The entries of `before` are in `after` where they were, with the slots
\* they had.
KeepsEntries(before, after) ==
    /\ IsPrefixOf(before.set, after.set)
    /\ \A i \in 1..Len(before.set) :
          ThreadsCaps(after, before.set[i]) = ThreadsCaps(before, before.set[i])

\* C27: the closure of the start state puts its states after those of the
\* current frontier in depth-first pre-order, the alternates of a Union in
\* the order listed; the next frontier is the pre-order walks from the
\* successors of the threads, in the order of the threads, up to the first
\* Match state; a state that is reached again in the pass keeps its place
\* and the slots stored for it.
C27_FrontierIsPriorityOrder ==
    InPass =>
        LET nfa == built.nfa
            clist == Seeded(nfa, vcfg, text, fr, cache)
            hits == MatchIndexes(nfa, clist)
            cut == IF hits = {} THEN Len(clist.set)
                   ELSE CHOOSE x \in hits : \A y \in hits : x <= y
            r == LoopBody(nfa, vcfg, text, fr, cache)
            seeded == [cache EXCEPT !.clist = clist]
        IN /\ clist.set
                 = IF Seeds(fr, cache, VmAnchored(vcfg, nfa))
                   THEN PreOrder(nfa, text, fr.at, cache.clist.set,
                                 nfa.start_anchored)
                   ELSE cache.clist.set
           /\ KeepsEntries(cache.clist, clist)
           /\ NextFrontier(r).set
                 = PreOrderOfAll(nfa, text, fr.at + 1, <<>>,
                       SuccessorsOf(nfa, text, fr.at, clist.set, cut))
           /\ \A j \in 0..(cut - 1) :
                 KeepsEntries(BeforeThread(nfa, text, fr, seeded, j).nlist,
                              BeforeThread(nfa, text, fr, seeded, j + 1).nlist)

\* Two threads of the frontier step to the same state: the second arrives
\* at a state that is in the next frontier already.
SecondArrival ==
    /\ InPass
    /\ LET nfa == built.nfa
           clist == Seeded(nfa, vcfg, text, fr, cache)
       IN \E j, k \in 1..Len(clist.set) :
             /\ j < k
             /\ MatchIndexes(nfa, clist) = {}
             /\ StepsTo(nfa, text, fr.at, clist.set[j]) # None
             /\ StepsTo(nfa, text, fr.at, clist.set[j])
                    = StepsTo(nfa, text, fr.at, clist.set[k])

\* A Union of three alternates is walked by the closure of the start
\* state.
ThreeAlternates ==
    /\ InPass
    /\ \E sid \in RangeOf(Seeded(built.nfa, vcfg, text, fr, cache).set) :
          /\ At(built.nfa.states, sid).k = "Union"
          /\ Len(At(built.nfa.states, sid).alternates) = 3

C27_Witness == SecondArrival \/ (ThreeAlternates /\ fr.at = 0 /\ cache.clist.set = <<>>)

\* ------------------------------------------------------------------ C28

\* A pass of a search that is not anchored and has recorded no match.
UnanchoredNoMatch ==
    /\ InPass
    /\ ~VmAnchored(vcfg, built.nfa)
    /\ ~IsSome(fr.matched_pid)

\* The current frontier after the seeding is the frontier before it,
\* followed by the states of the closure of `from` at `at` that it did not
\* hold.
SeededFrom(from) ==
    LET nfa == built.nfa
        clist == Seeded(nfa, vcfg, text, fr, cache)
        added == SubSeq(clist.set, Len(cache.clist.set) + 1, Len(clist.set))
    IN /\ KeepsEntries(cache.clist, clist)
       /\ RangeOf(added)
              = EpsilonReach(nfa, text, fr.at, {from}) \ RangeOf(cache.clist.set)

Searching == pc \in {"loop", "ret"}
AnchoredSearch == VmAnchored(vcfg, built.nfa)

\* C29: in an anchored search a pass adds the start state only at `start`,
\* the loop is left at the first position after `start` where the frontier
\* is empty, what was recorded until then being the result, and a match
\* that is returned begins at `start`; in every search a pass that begins
\* with a match recorded does not add the start state.
C29_AnchoredSeedsAtStart ==
    /\ (InPass /\ AnchoredSearch /\ Seeds(fr, cache, TRUE)) => fr.at = fr.start
    /\ (InPass /\ AnchoredSearch /\ fr.at > fr.start) =>
           /\ cache.clist.set # <<>>
           /\ Seeded(built.nfa, vcfg, text, fr, cache) = cache.clist
    /\ (pc = "loop" /\ AnchoredSearch /\ fr.at > fr.start
            /\ cache.clist.set = <<>>) =>
           /\ LoopBreaks(fr, cache, TRUE)
           /\ ~ReturnPanics(built.nfa, fr) =>
                  \/ ReturnValue(built.nfa, fr) = None
                  \/ Unwrap(ReturnValue(built.nfa, fr)).start = fr.start
    /\ (pc = "resume" /\ AnchoredSearch /\ IsSome(m)) =>
           Unwrap(m).start = fr.start
    /\ (InPass /\ IsSome(fr.matched_pid)) =>
           /\ ~Seeds(fr, cache, AnchoredSearch)
           /\ Seeded(built.nfa, vcfg, text, fr, cache) = cache.clist

\* An anchored search for `a` in "ba" is over at the second byte with
\* nothing recorded.
AnchoredStops ==
    /\ pc = "ret"
    /\ VmGetAnchored(vcfg)
    /\ hirs = <<a>>
    /\ text = <<ByteB, ByteA>>
    /\ fr.start = 0 /\ fr.at = 1 /\ fr.end = 2
    /\ cache.clist.set = <<>>
    /\ ~IsSome(fr.matched_pid)

\* A search that is not anchored goes on after a match without adding the
\* start state.
GoesOnUnseeded ==
    /\ InPass
    /\ ~AnchoredSearch
    /\ IsSome(fr.matched_pid)
    /\ cache.clist.set # <<>>
    /\ fr.at < fr.end

\* An anchored search from a later start returns a match that begins
\* there.
AnchoredLater ==
    /\ pc = "resume"
    /\ AnchoredSearch
    /\ IsSome(m)
    /\ fr.start > 0
    /\ Unwrap(m).end > Unwrap(m).start

C29_Witness == AnchoredStops \/ GoesOnUnseeded \/ AnchoredLater

\* ------------------------------------------------------------------ C30

\* Backtracking over the pattern itself.  `conts` is what is left to match:
\* patterns, the ends of capturing groups, and the returns of a repetition
\* to its start.  The alternatives are tried in the order of preference and
\* the first that lets all of `conts` match wins.  A repetition of zero or
\* more whose last turn matched the empty string takes no further turn.
ContHir(e) == [t |-> "hir", e |-> e]
ContClose(index) == [t |-> "close", index |-> index]
ContAgain(e, greedy, from) ==
    [t |-> "again", e |-> e, greedy |-> greedy, from |-> from]

RECURSIVE BtHir(_, _, _, _)
RECURSIVE BtHirFirst(_, _, _, _, _)

\* The first of the continuations `choices` that matches.
BtHirFirst(choices, rest, pos, slots, haystack) ==
    IF choices = <<>> THEN None
    ELSE LET r == BtHir(Head(choices) \o rest, pos, slots, haystack)
         IN IF IsSome(r) THEN r
            ELSE BtHirFirst(Tail(choices), rest, pos, slots, haystack)

BtHir(conts, pos, slots, haystack) ==
    IF conts = <<>> THEN Some([end |-> pos, slots |-> slots])
    ELSE LET k == Head(conts)
             rest == Tail(conts)
             \* One more turn of the body, or none, as the greed has it.
             Turn(e, greedy) ==
                 LET more == <<ContHir(e), ContAgain(e, greedy, pos)>>
                 IN BtHirFirst(IF greedy THEN <<more, <<>>>> ELSE <<<<>>, more>>,
                               rest, pos, slots, haystack)
         IN CASE k.t = "close" ->
                    BtHir(rest, pos, SetAt(slots, 2 * k.index + 1, Some(pos)),
                          haystack)
              [] k.t = "again" ->
                    IF pos = k.from THEN BtHir(rest, pos, slots, haystack)
                    ELSE Turn(k.e, k.greedy)
              [] k.t = "hir" /\ k.e.kind = "Empty" ->
                    BtHir(rest, pos, slots, haystack)
              [] k.t = "hir" /\ k.e.kind = "Literal" ->
                    IF pos < Len(haystack) /\ At(haystack, pos) = k.e.v
                    THEN BtHir(rest, pos + 1, slots, haystack)
                    ELSE None
              [] k.t = "hir" /\ k.e.kind = "Concat" ->
                    BtHir([i \in 1..Len(k.e.es) |-> ContHir(k.e.es[i])] \o rest,
                          pos, slots, haystack)
              [] k.t = "hir" /\ k.e.kind = "Alternation" ->
                    BtHirFirst([i \in 1..Len(k.e.es) |-> <<ContHir(k.e.es[i])>>],
                               rest, pos, slots, haystack)
              [] k.t = "hir" /\ k.e.kind = "Group" ->
                    IF k.e.group.t = "NonCapturing"
                    THEN BtHir(<<ContHir(k.e.hir)>> \o rest, pos, slots, haystack)
                    ELSE BtHir(<<ContHir(k.e.hir), ContClose(k.e.group.index)>>
                                   \o rest,
                               pos,
                               SetAt(slots, 2 * k.e.group.index, Some(pos)),
                               haystack)
              [] k.t = "hir" /\ k.e.kind = "Repetition" ->
                    CASE k.e.rep.t = "ZeroOrOne" ->
                             BtHirFirst(IF k.e.greedy
                                        THEN <<<<ContHir(k.e.hir)>>, <<>>>>
                                        ELSE <<<<>>, <<ContHir(k.e.hir)>>>>,
                                        rest, pos, slots, haystack)
                      [] k.e.rep.t = "ZeroOrMore" -> Turn(k.e.hir, k.e.greedy)
                      [] k.e.rep.t = "OneOrMore" ->
                             BtHir(<<ContHir(k.e.hir),
                                     ContAgain(k.e.hir, k.e.greedy, pos)>> \o rest,
                                   pos, slots, haystack)

\* The leftmost start from `at` on at which the pattern, as group 0,
\* matches; nslots is the number of slots.
RECURSIVE BtHirSearch(_, _, _, _)
BtHirSearch(e, haystack, nslots, at) ==
    IF at > Len(haystack) THEN None
    ELSE LET r == BtHir(<<ContHir(HirGroup(CaptureIndex(0), e))>>, at,
                        [j \in 1..nslots |-> None], haystack)
         IN IF IsSome(r) THEN r
            ELSE BtHirSearch(e, haystack, nslots, at + 1)

\* Bodies that match the empty string.
StarBodies ==
    {HirEmpty,
     Rep(ZeroOrOne, TRUE, a), Rep(ZeroOrOne, FALSE, a),
     Rep(ZeroOrMore, TRUE, a), Rep(ZeroOrMore, FALSE, a),
     HirAlternation(<<HirEmpty, a>>), HirAlternation(<<a, HirEmpty>>),
     Grp(1, Rep(ZeroOrOne, TRUE, a)), Grp(1, Rep(ZeroOrMore, FALSE, a)),
     Grp(1, HirAlternation(<<HirEmpty, a>>)),
     Grp(1, HirAlternation(<<a, HirEmpty>>)),
     HirConcat(<<Rep(ZeroOrOne, TRUE, a), Rep(ZeroOrOne, TRUE, b)>>),
     HirConcat(<<Grp(1, Rep(ZeroOrOne, FALSE, a)), Grp(2, Rep(ZeroOrOne, TRUE, b))>>),
     HirAlternation(<<Grp(1, HirEmpty), Grp(2, ab)>>),
     HirAlternation(<<Grp(1, b), Grp(2, Rep(ZeroOrMore, TRUE, a))>>),
     Rep(ZeroOrMore, TRUE, Grp(1, HirAlternation(<<a, HirEmpty>>))),
     Rep(ZeroOrMore, TRUE, Grp(1, HirAlternation(<<HirEmpty, a>>)))}

\* A machine that builds x* for a body x that matches the empty string, to
\* search a haystack.
StarInit ==
    /\ \E x \in StarBodies, greedy \in BOOLEAN :
          hirs = <<Rep(ZeroOrMore, greedy, x)>>
    /\ text \in SeqsUpTo({ByteA, ByteB}, MaxHayLen)
    /\ ccfg = CfgBytes
    /\ vcfg = VmConfigDefault
    /\ calls = <<>>
    /\ utf8c = NoUtf8
    /\ compiler = NewCompiler(ConfigDefault)
    /\ earlier = <<>>
    /\ built = CompileResult("none", NfaEmpty)
    /\ pc = "new"
    /\ iter = [last_end |-> 0, last_match |-> None]
    /\ cache = NoCache
    /\ fr = NoFrame
    /\ m = None
    /\ ret = None
    /\ yielded = <<>>
    /\ none_seen = FALSE

StarSpec == StarInit /\ [][Build]_vars

\* What a search of the whole haystack with a new cache and new Captures
\* gives: the span of the match and the slots.
Found(nfa, haystack) ==
    LET r == FindLeftmostAt(nfa, VmConfigDefault, haystack, 0, Len(haystack),
                            CacheNew(nfa), CapturesNew(nfa))
    IN IF r.panics \/ r.m = None THEN None
       ELSE Some([end |-> Unwrap(r.m).end, slots |-> r.fr.slots])

\* (x+)? for the x* that was given.
PlusQuestion(star) ==
    Rep(ZeroOrOne, star.greedy, Rep(OneOrMore, star.greedy, star.hir))

\* What backtracking over the automaton finds: the alternates of a Union
\* in the order listed, a state tried once at a position.
FoundByVisit(nfa, haystack) ==
    LET r == BtSearch(nfa, haystack, 0, Len(haystack), FALSE, 0)
    IN IF r = None THEN None
       ELSE Some([end |-> Unwrap(r).end, slots |-> Unwrap(r).slots])

\* C30, as the specification states it: for x* with a body x that matches
\* the empty string, greedy or not, the search of every haystack with the
\* automaton compiled for x* gives the match and the capture offsets that
\* the automaton compiled for (x+)? gives, and those that backtracking over
\* the pattern x* gives.
C30_StarAsBacktracking ==
    pc = "built" =>
        LET star == hirs[1]
            found == Found(built.nfa, text)
        IN /\ found = Found(Compile(ccfg, <<PlusQuestion(star)>>).nfa, text)
           /\ found = BtHirSearch(star, text, CaptureSlotLen(built.nfa), 0)

\* C30: for x* with a body x that matches the empty string, greedy or not,
\* the search of every haystack with the automaton compiled for x* gives the
\* match and the capture offsets that the automaton compiled for (x+)?
\* gives, and those of backtracking over the automaton of x* in which a
\* state is tried once at a position.
C30_StarOfNullable ==
    pc = "built" =>
        LET star == hirs[1]
            found == Found(built.nfa, text)
        IN /\ built.err = "ok"
           /\ IsMatchEmpty(star.hir)
           /\ found # None
           /\ found = Found(Compile(ccfg, <<PlusQuestion(star)>>).nfa, text)
           /\ found = FoundByVisit(built.nfa, text)

\* ((a??)(b?))* on "ba": the search gives the match [0, 2), backtracking
\* over the pattern ends the loop at the empty turn and gives [0, 1).
LongerThanBacktracking ==
    /\ pc = "built"
    /\ hirs = <<Rep(ZeroOrMore, TRUE,
                    HirConcat(<<Grp(1, Rep(ZeroOrOne, FALSE, a)),
                                Grp(2, Rep(ZeroOrOne, TRUE, b))>>))>>
    /\ text = <<ByteB, ByteA>>
    /\ Unwrap(Found(built.nfa, text)).end = 2
    /\ Unwrap(BtHirSearch(hirs[1], text, 6, 0)).end = 1

\* ((a|))* on "aa": the search leaves group 1 at the last `a`, where
\* backtracking over the pattern leaves it at the empty turn after it.
GroupOfLastTurn ==
    /\ pc = "built"
    /\ hirs = <<Rep(ZeroOrMore, TRUE, Grp(1, HirAlternation(<<a, HirEmpty>>)))>>
    /\ text = <<ByteA, ByteA>>
    /\ Unwrap(Found(built.nfa, text)).slots = <<Some(0), Some(2), Some(1), Some(2)>>
    /\ Unwrap(BtHirSearch(hirs[1], text, 4, 0)).slots
           = <<Some(0), Some(2), Some(2), Some(2)>>

\* (|a)* on "aa": the empty match, and not `aa`.
C30_Witness ==
    /\ pc = "built"
    /\ hirs = <<Rep(ZeroOrMore, TRUE, HirAlternation(<<HirEmpty, a>>))>>
    /\ text = <<ByteA, ByteA>>
    /\ Found(built.nfa, text) = Some([end |-> 0, slots |-> <<Some(0), Some(0)>>])

\* ------------------------------------------------------------------ C31

\* The compiler when finish is called, with the start states it hands
\* over.
AtFinish == C(NewCompiler(ccfg), HirPatterns(hirs))

\* The state IDs an intermediate state and a final state lead to, in the
\* order in which the final state keeps them.
CTargets(bs) ==
    CASE bs.k \in {"Empty", "CaptureStart", "CaptureEnd", "Look"} -> <<bs.next>>
      [] bs.k = "Range" -> <<bs.range.next>>
      [] bs.k = "Sparse" -> [i \in 1..Len(bs.ranges) |-> bs.ranges[i].next]
      [] bs.k = "Union" -> bs.alternates
      [] bs.k = "UnionReverse" -> Reverse(bs.alternates)
      [] OTHER -> <<>>

STargets(s) ==
    CASE s.k \in {"Capture", "Look"} -> <<s.next>>
      [] s.k = "Range" -> <<s.range.next>>
      [] s.k = "Sparse" -> [i \in 1..Len(s.ranges) |-> s.ranges[i].next]
      [] s.k = "Union" -> s.alternates
      [] OTHER -> <<>>

\* The kind a final state has for an intermediate state that is kept.
FinalKind(bs) ==
    CASE bs.k \in {"CaptureStart", "CaptureEnd"} -> "Capture"
      [] bs.k \in {"Union", "UnionReverse"} -> "Union"
      [] OTHER -> bs.k

\* The first state that is not Empty on the chain of Empty links from sid
\* (within `fuel` links: a chain is no longer than the states are many).
RECURSIVE SkipEmpty(_, _, _)
SkipEmpty(bstates, sid, fuel) ==
    IF At(bstates, sid).k # "Empty" \/ fuel = 0 THEN sid
    ELSE SkipEmpty(bstates, At(bstates, sid).next, fuel - 1)

\* The intermediate IDs of the states that are kept, in their order, and
\* the new ID of one of them: the number of kept states before it.
Kept(bstates) == {sid \in 0..(Len(bstates) - 1) : At(bstates, sid).k # "Empty"}
NewId(bstates, sid) == Cardinality({x \in Kept(bstates) : x < sid})
NewIdOfTarget(bstates, sid) ==
    NewId(bstates, SkipEmpty(bstates, sid, Len(bstates)))

\* C31: finish leaves no Empty state; the states that are not Empty are
\* kept one for one, in their order, with the IDs 0..N-1; every target,
\* alternate, pattern start and start ID is the new ID of the first state
\* that is not Empty on the chain of Empty links from the original target.
\* The empty pattern without prefix and captures is the one state Match.
C31_FinishRemovesEmpties ==
    (pc = "built" /\ hirs # <<>>) =>
        LET at == AtFinish
            bstates == at.c.states
            nfa == built.nfa
        IN /\ \A i \in 1..Len(nfa.states) : nfa.states[i].k # "Empty"
           /\ Len(nfa.states) = Cardinality(Kept(bstates))
           /\ \A sid \in Kept(bstates) :
                 LET bs == At(bstates, sid)
                     s == At(nfa.states, NewId(bstates, sid))
                 IN /\ s.k = FinalKind(bs)
                    /\ STargets(s)
                           = [i \in 1..Len(CTargets(bs)) |->
                                 NewIdOfTarget(bstates, CTargets(bs)[i])]
                    /\ bs.k = "Match" =>
                          /\ s.id = bs.pattern_id
                          /\ At(nfa.start_pattern, bs.pattern_id)
                                 = NewIdOfTarget(bstates, bs.start_id)
           /\ nfa.start_anchored = NewIdOfTarget(bstates, at.start_anchored)
           /\ nfa.start_unanchored = NewIdOfTarget(bstates, at.start_unanchored)
           /\ (hirs = <<HirEmpty>> /\ ccfg = CfgTest) => nfa.states = <<SMatch(0)>>

\* An Empty state leads to another Empty state.
EmptyChain(bstates) ==
    \E sid \in 0..(Len(bstates) - 1) :
       /\ At(bstates, sid).k = "Empty"
       /\ At(bstates, At(bstates, sid).next).k = "Empty"

\* An automaton finished from states with a chain of two Empty states, and
\* the empty pattern of the test compile_empty.
C31_Witness ==
    /\ pc = "built"
    /\ \/ /\ EmptyChain(AtFinish.c.states)
          /\ Len(built.nfa.states) < Len(AtFinish.c.states)
       \/ /\ hirs = <<HirEmpty>> /\ ccfg = CfgTest
          /\ built.nfa.states = <<SMatch(0)>>

\* ------------------------------------------------------------------ C32

\* The Empty states met on the chain of Empty links from sid, in order,
\* until a state that is not Empty or a state met before.
RECURSIVE EmptyPath(_, _, _)
EmptyPath(bstates, sid, path) ==
    IF At(bstates, sid).k # "Empty" \/ (\E i \in 1..Len(path) : path[i] = sid) THEN path
    ELSE EmptyPath(bstates, At(bstates, sid).next, Append(path, sid))

\* The chain of Empty links from sid comes back to a state of the chain.
OnEmptyCycle(bstates, sid) ==
    LET path == EmptyPath(bstates, sid, <<>>)
    IN /\ path # <<>>
       /\ At(bstates, At(bstates, path[Len(path)]).next).k = "Empty"

\* C32: when finish starts, for every list of patterns and configuration,
\* no Empty state lies on or leads into a cycle of Empty states (no Empty
\* state has itself as its target, the target 0 of add_empty included), so
\* every chain of Empty links ends in a state that is not Empty and the
\* loop of finish that follows the chain terminates.
C32_NoEmptyCycle ==
    hirs # <<>> =>
        LET bstates == AtFinish.c.states
        IN \A sid \in 0..(Len(bstates) - 1) :
              /\ ~OnEmptyCycle(bstates, sid)
              /\ At(bstates, sid).k = "Empty" => At(bstates, sid).next # sid
              /\ At(bstates, SkipEmpty(bstates, sid, Len(bstates))).k # "Empty"

\* finish has run on states in which state 0, the target add_empty gives
\* every Empty state, is an Empty state itself, and in which a chain of two
\* Empty states ends in a state that is not Empty.
C32_Witness ==
    /\ pc = "built"
    /\ built.err = "ok"
    /\ LET bstates == AtFinish.c.states
       IN /\ At(bstates, 0).k = "Empty"
          /\ \E sid \in 0..(Len(bstates) - 1) :
                /\ Len(EmptyPath(bstates, sid, <<>>)) >= 2
                /\ At(bstates, FollowEmpty(bstates, sid)).k # "Empty"

\* ------------------------------------------------------------------ C33

\* The states an intermediate state leads to without consuming a byte.
CEpsilonNext(bstates, sid) ==
    LET s == At(bstates, sid)
    IN IF s.k \in {"Range", "Sparse", "Match"} THEN {}
       ELSE RangeOf(CTargets(s))

RECURSIVE CEpsilonReach(_, _)
CEpsilonReach(bstates, seen) ==
    LET more == seen \cup UNION {CEpsilonNext(bstates, sid) : sid \in seen}
    IN IF more = seen THEN seen ELSE CEpsilonReach(bstates, more)

\* The states on a cycle that consumes no byte.
EpsilonCycle(bstates) ==
    {sid \in 0..(Len(bstates) - 1) :
        sid \in CEpsilonReach(bstates, CEpsilonNext(bstates, sid))}

\* The tree has a repetition without upper bound whose body matches the
\* empty string.
RECURSIVE HasNullableLoop(_)
HasNullableLoop(e) ==
    CASE e.kind = "Repetition" ->
            \/ /\ e.rep.t \in {"ZeroOrMore", "OneOrMore", "AtLeast"}
               /\ IsMatchEmpty(e.hir)
            \/ HasNullableLoop(e.hir)
      [] e.kind = "Group" -> HasNullableLoop(e.hir)
      [] e.kind \in {"Concat", "Alternation"} ->
            \E i \in 1..Len(e.es) : HasNullableLoop(e.es[i])
      [] OTHER -> FALSE

\* The states of a cycle that goes through no Union state either.
RECURSIVE CLinkReach(_, _)
CLinkReach(bstates, seen) ==
    LET more == seen \cup UNION {IF At(bstates, sid).k \in {"Union", "UnionReverse"}
                                 THEN {} ELSE CEpsilonNext(bstates, sid) :
                                    sid \in seen}
    IN IF more = seen THEN seen ELSE CLinkReach(bstates, more)

FlatBodies == {a, ab, Grp(1, a), HirEmpty}
NestedBodies ==
    {Rep(OneOrMore, TRUE, a), Rep(ZeroOrOne, TRUE, a),
     Rep(ZeroOrOne, FALSE, a), Rep(ZeroOrMore, TRUE, a)}
BoundedBodies == FlatBodies \cup NestedBodies

\* A machine that builds x{min,max} with min < max.
BoundedInit ==
    /\ \E x \in BoundedBodies, greedy \in BOOLEAN,
          min \in 0..MaxRep, max \in 0..MaxRep :
          /\ min < max
          /\ x \in NestedBodies => max < MaxRep
          /\ hirs = <<Rep(Bounded(min, max), greedy, x)>>
    /\ text = <<>>
    /\ ccfg \in {CfgTest, CfgNoPrefix}
    /\ hirs[1].hir \in NestedBodies => ccfg = CfgTest
    /\ vcfg = VmConfigDefault
    /\ calls = <<>>
    /\ utf8c = NoUtf8
    /\ compiler = NewCompiler(ConfigDefault)
    /\ earlier = <<>>
    /\ built = CompileResult("none", NfaEmpty)
    /\ pc = "new"
    /\ iter = [last_end |-> 0, last_match |-> None]
    /\ cache = NoCache
    /\ fr = NoFrame
    /\ m = None
    /\ ret = None
    /\ yielded = <<>>
    /\ none_seen = FALSE

BoundedSpec == BoundedInit /\ [][Build]_vars

\* The body compiled alone: the number of its states and the places of its
\* start and end among them.
BodyAlone(cfg, x) == C(NewCompiler(cfg), x)

\* Where c_bounded puts its states, from the first state `base` of the
\* fragment and the number k of states of one copy of the body: the
\* prefix of c_exactly (one Empty state when min = 0), the shared end, and
\* for each pass of the loop a union followed by a copy.
PrefixLen(min, k) == IF min = 0 THEN 1 ELSE min * k
SharedEnd(base, min, k) == base + PrefixLen(min, k)
OptionUnion(base, min, k, j) == SharedEnd(base, min, k) + 1 + (j - 1) * (k + 1)
CopyBase(base, min, k, i) ==
    IF i <= min THEN base + (i - 1) * k
    ELSE OptionUnion(base, min, k, i - min) + 1
FragmentLen(min, max, k) == PrefixLen(min, k) + 1 + (max - min) * (k + 1)

\* The states after the fragment of the only pattern: the end of group 0,
\* when captures are compiled, and Match.
AfterFragment(cfg) == IF GetCaptures(cfg) THEN 2 ELSE 1

LeadsTo(bstates, from, to) == to \in RangeOf(CTargets(At(bstates, from)))

\* The shape of the fragment of x{min,max} in the states handed to finish
\* and in the automaton: the copies chained, the option unions with their
\* two alternates.
BoundedShape(bstates, nfa, cfg, x, greedy, min, max) ==
    LET alone == BodyAlone(cfg, x)
        k == Len(alone.c.states)
        base == Len(bstates) - AfterFragment(cfg) - FragmentLen(min, max, k)
        end == SharedEnd(base, min, k)
        Start(i) == CopyBase(base, min, k, i) + alone.start
        End(i) == CopyBase(base, min, k, i) + alone.end
        Union(j) == OptionUnion(base, min, k, j)
        Unions == {Union(j) : j \in 1..(max - min)}
        InCopy(sid) == \E i \in 1..max :
                          sid - CopyBase(base, min, k, i) \in 0..(k - 1)
    IN /\ base >= 0
       /\ At(bstates, end) = CEmpty(end + 1 + (max - min) * (k + 1))
       \* the copies are the body, state for state
       /\ \A i \in 1..max : \A n \in 0..(k - 1) :
             At(bstates, CopyBase(base, min, k, i) + n).k = At(alone.c.states, n).k
       \* the first min copies are chained, the last into the first union
       /\ \A i \in 1..(min - 1) : LeadsTo(bstates, End(i), Start(i + 1))
       /\ LeadsTo(bstates, IF min = 0 THEN base ELSE End(min), Union(1))
       \* max - min unions, and no others outside the copies
       /\ {sid \in base..(base + FragmentLen(min, max, k) - 1) :
              /\ At(bstates, sid).k \in {"Union", "UnionReverse"}
              /\ ~InCopy(sid)} = Unions
       /\ Cardinality(Unions) = max - min
       /\ \A j \in 1..(max - min) :
             /\ At(bstates, Union(j))
                    = IF greedy THEN CUnion(<<Start(min + j), end>>)
                      ELSE CUnionReverse(<<Start(min + j), end>>)
             /\ At(nfa.states, NewId(bstates, Union(j))).k = "Union"
             /\ At(nfa.states, NewId(bstates, Union(j))).alternates
                    = IF greedy
                      THEN <<NewIdOfTarget(bstates, Start(min + j)),
                             NewIdOfTarget(bstates, end)>>
                      ELSE <<NewIdOfTarget(bstates, end),
                             NewIdOfTarget(bstates, Start(min + j))>>
             \* the fall-through is the shared end, which is no union
             /\ SkipEmpty(bstates, end, Len(bstates)) \notin Unions
             \* the copy leads to the next union, the last to the shared end
             /\ LeadsTo(bstates, End(min + j),
                        IF j < max - min THEN Union(j + 1) ELSE end)

\* The option unions after the j-th in its epsilon closure.
LaterInClosure(bstates, cfg, x, min, max, j) ==
    LET k == Len(BodyAlone(cfg, x).c.states)
        base == Len(bstates) - AfterFragment(cfg) - FragmentLen(min, max, k)
    IN {n \in (j + 1)..(max - min) :
           OptionUnion(base, min, k, n)
               \in CEpsilonReach(bstates, {OptionUnion(base, min, k, j)})}

LaterOptionInClosure ==
    /\ pc = "built"
    /\ hirs = <<Rep(Bounded(0, 2), TRUE, Rep(ZeroOrOne, TRUE, a))>>
    /\ LaterInClosure(AtFinish.c.states, ccfg, hirs[1].hir, 0, 2, 1) = {2}

\* ------------------------------------------------------------------ C35

\* A machine that builds one repetition of every kind, greedy and not, or
\* the ab+ of the test compile_group.
RepInit ==
    /\ \/ \E x \in BoundedBodies, greedy \in BOOLEAN, rk \in RepKinds :
             /\ rk.t = "Bounded" => rk.min <= rk.max
             /\ (x \in NestedBodies /\ rk.t = "Bounded") => rk.max < MaxRep
             /\ hirs = <<Rep(rk, greedy, x)>>
       \/ \E greedy \in BOOLEAN :
             hirs = <<HirConcat(<<a, Rep(OneOrMore, greedy, b)>>)>>
    /\ text = <<>>
    /\ ccfg \in {CfgTest, CfgNoPrefix}
    /\ (hirs[1].kind = "Repetition" /\ hirs[1].hir \in NestedBodies)
          => ccfg = CfgTest
    /\ vcfg = VmConfigDefault
    /\ calls = <<>>
    /\ utf8c = NoUtf8
    /\ compiler = NewCompiler(ConfigDefault)
    /\ earlier = <<>>
    /\ built = CompileResult("none", NfaEmpty)
    /\ pc = "new"
    /\ iter = [last_end |-> 0, last_match |-> None]
    /\ cache = NoCache
    /\ fr = NoFrame
    /\ m = None
    /\ ret = None
    /\ yielded = <<>>
    /\ none_seen = FALSE

RepSpec == RepInit /\ [][Build]_vars

\* The repetition with its greedy flag flipped.
Flipped(e) == [e EXCEPT !.greedy = ~e.greedy]

\* The number of unions c_repetition adds for the repetition itself.
OwnUnions(e) ==
    CASE e.rep.t = "ZeroOrOne" -> 1
      [] e.rep.t = "ZeroOrMore" -> IF IsMatchEmpty(e.hir) THEN 2 ELSE 1
      [] e.rep.t = "OneOrMore" -> 1
      [] e.rep.t = "Exactly" -> 0
      [] e.rep.t = "AtLeast" ->
            IF e.rep.n = 0 /\ IsMatchEmpty(e.hir) THEN 2 ELSE 1
      [] e.rep.t = "Bounded" -> e.rep.max - e.rep.min

\* The same union with the other priority.
OtherUnion(s) ==
    IF s.k = "Union" THEN CUnionReverse(s.alternates)
    ELSE CUnion(s.alternates)

\* C35: flipping the greedy flag of a repetition changes nothing but the
\* unions added for that repetition: the states handed to finish are as
\* many and the same, but for these unions, which are Union for one flag
\* and UnionReverse for the other with the same alternates; the automaton
\* has states of the kind Union only, the same but for these unions, whose
\* alternates are reversed.
C35_GreedyFlipsOwnUnions ==
    (pc = "built" /\ hirs[1].kind = "Repetition") =>
        LET e == hirs[1]
            one == AtFinish.c.states
            other == C(NewCompiler(ccfg), HirPatterns(<<Flipped(e)>>)).c.states
            nfa == built.nfa
            flipped == Compile(ccfg, <<Flipped(e)>>).nfa
            own == {sid \in 0..(Len(one) - 1) : At(one, sid) # At(other, sid)}
        IN /\ Len(one) = Len(other)
           /\ Cardinality(own) = OwnUnions(e)
           /\ \A sid \in own :
                 /\ At(one, sid).k = (IF e.greedy THEN "Union" ELSE "UnionReverse")
                 /\ At(other, sid) = OtherUnion(At(one, sid))
           /\ Len(nfa.states) = Len(flipped.states)
           /\ [nfa EXCEPT !.states = <<>>] = [flipped EXCEPT !.states = <<>>]
           /\ \A i \in 1..Len(nfa.states) :
                 /\ nfa.states[i].k # "UnionReverse"
                 /\ IF i - 1 \in {NewId(one, sid) : sid \in own}
                    THEN /\ nfa.states[i].k = "Union"
                         /\ flipped.states[i]
                                = SUnion(Reverse(nfa.states[i].alternates))
                    ELSE flipped.states[i] = nfa.states[i]

\* a? is built as union [body, exit], a?? as union [exit, body]; (a?)* is
\* built with two unions of its own and the union of its body.
C35_Witness ==
    /\ pc = "built"
    /\ ccfg = CfgTest
    /\ \/ /\ hirs = <<Rep(ZeroOrOne, TRUE, a)>>
          /\ built.nfa.states = <<SUnion(<<1, 2>>),
                                  SRange(Transition(ByteA, ByteA, 2)), SMatch(0)>>
       \/ /\ hirs = <<Rep(ZeroOrOne, FALSE, a)>>
          /\ built.nfa.states = <<SUnion(<<2, 1>>),
                                  SRange(Transition(ByteA, ByteA, 2)), SMatch(0)>>
       \/ /\ hirs = <<Rep(ZeroOrMore, FALSE, Rep(ZeroOrOne, TRUE, a))>>
          /\ Cardinality({i \in 1..Len(built.nfa.states) :
                             built.nfa.states[i].k = "Union"}) = 3

\* ------------------------------------------------------------------ C36

MaxWordLen == 4

Words == SeqsUpTo({ByteA, ByteB}, MaxWordLen)

\* The words of X followed by a word of Y, no longer than MaxWordLen.
Concatenations(X, Y) ==
    {u \o v : u \in X, v \in Y} \cap Words

RECURSIVE Power(_, _)
Power(X, k) == IF k = 0 THEN {<<>>} ELSE Concatenations(Power(X, k - 1), X)

\* The concatenations of any number of words of X.
RECURSIVE Star(_, _)
Star(X, S) ==
    LET more == S \cup Concatenations(S, X)
    IN IF more = S THEN S ELSE Star(X, more)

\* The concatenations of k words of X for the k >= n.
AtLeastCopies(X, n) == Concatenations(Power(X, n), Star(X, {<<>>}))

\* The words over a and b a syntax tree matches as a whole.
RECURSIVE HirWords(_)
HirWords(e) ==
    CASE e.kind = "Empty" -> {<<>>}
      [] e.kind = "Literal" -> {<<e.v>>}
      [] e.kind = "Group" -> HirWords(e.hir)
      [] e.kind = "Concat" ->
            IF e.es = <<>> THEN {<<>>}
            ELSE Concatenations(HirWords(Head(e.es)),
                                HirWords(HirConcat(Tail(e.es))))
      [] e.kind = "Alternation" ->
            UNION {HirWords(e.es[i]) : i \in 1..Len(e.es)}
      [] e.kind = "Repetition" ->
            LET X == HirWords(e.hir)
            IN CASE e.rep.t = "ZeroOrOne" -> X \cup {<<>>}
                 [] e.rep.t = "ZeroOrMore" -> AtLeastCopies(X, 0)
                 [] e.rep.t = "OneOrMore" -> AtLeastCopies(X, 1)
                 [] e.rep.t = "Exactly" -> Power(X, e.rep.n)
                 [] e.rep.t = "AtLeast" -> AtLeastCopies(X, e.rep.n)
                 [] e.rep.t = "Bounded" ->
                       UNION {Power(X, k) : k \in e.rep.min..e.rep.max}

\* The automaton accepts the word as a whole: the states after each byte,
\* from the closure of the anchored start, have a Match state at the end.
RECURSIVE StatesAfter(_, _, _, _)
StatesAfter(nfa, word, at, states) ==
    IF at = Len(word) THEN states
    ELSE StatesAfter(nfa, word, at + 1,
                     UNION {Contribution(nfa, word, at, sid) : sid \in states})

Accepts(nfa, word) ==
    \E sid \in StatesAfter(nfa, word, 0,
                           EpsilonReach(nfa, word, 0, {nfa.start_anchored})) :
       At(nfa.states, sid).k = "Match"

\* The n of the repetitions compiled by c_at_least.
AtLeastOf(rk) ==
    CASE rk.t = "ZeroOrMore" -> 0
      [] rk.t = "OneOrMore" -> 1
      [] rk.t = "AtLeast" -> rk.n

\* The fragment of x{1,}: the body and after it a union of the start of the
\* body and the state after the fragment, the end of the body leading to
\* the union.
BodyThenUnion(bstates, nfa, cfg, x, greedy) ==
    LET alone == BodyAlone(cfg, x)
        k == Len(alone.c.states)
        union == Len(bstates) - AfterFragment(cfg) - 1
        base == union - k
        alts == <<base + alone.start, union + 1>>
    IN /\ base >= 0
       /\ \A n \in 0..(k - 1) :
             At(bstates, base + n).k = At(alone.c.states, n).k
       /\ LeadsTo(bstates, base + alone.end, union)
       /\ At(bstates, union) = IF greedy THEN CUnion(alts)
                               ELSE CUnionReverse(alts)
       /\ At(nfa.states, NewId(bstates, union))
              = SUnion([i \in 1..2 |->
                          NewIdOfTarget(bstates,
                                        IF greedy THEN alts[i] ELSE alts[3 - i])])

\* C36: the automaton of `at least n` copies of x accepts exactly the
\* concatenations of k words of x for the k >= n, for n = 0, n = 1 and the
\* larger n, whether or not x matches the empty string; for n = 1 it is
\* the body followed by a union of the start of the body and the exit.
C36_AtLeastAccepts ==
    (pc = "built" /\ hirs[1].kind = "Repetition"
        /\ hirs[1].rep.t \in {"ZeroOrMore", "OneOrMore", "AtLeast"}) =>
        LET e == hirs[1]
            n == AtLeastOf(e.rep)
        IN /\ \A word \in Words :
                 Accepts(built.nfa, word)
                     <=> word \in AtLeastCopies(HirWords(e.hir), n)
           /\ n = 1 => BodyThenUnion(AtFinish.c.states, built.nfa, ccfg,
                                     e.hir, e.greedy)

\* ab+ and (ab)+ of the test compile_group are built, and (a?){2,}, which
\* accepts the words of a of every length.
C36_Witness ==
    /\ pc = "built"
    /\ ccfg = CfgTest
    /\ \/ /\ hirs = <<HirConcat(<<a, Rep(OneOrMore, TRUE, b)>>)>>
          /\ built.nfa.states
                 = <<SRange(Transition(ByteA, ByteA, 1)),
                     SRange(Transition(ByteB, ByteB, 2)),
                     SUnion(<<1, 3>>), SMatch(0)>>
       \/ /\ hirs = <<Rep(OneOrMore, TRUE, ab)>>
          /\ built.nfa.states
                 = <<SRange(Transition(ByteA, ByteA, 1)),
                     SRange(Transition(ByteB, ByteB, 2)),
                     SUnion(<<0, 3>>), SMatch(0)>>
          /\ Accepts(built.nfa, <<ByteA, ByteB, ByteA, ByteB>>)
          /\ ~Accepts(built.nfa, <<>>)
       \/ /\ hirs = <<Rep(AtLeast(2), TRUE, Rep(ZeroOrOne, TRUE, a))>>
          /\ Accepts(built.nfa, <<>>)
          /\ Accepts(built.nfa, <<ByteA, ByteA, ByteA>>)
          /\ ~Accepts(built.nfa, <<ByteB>>)

\* ------------------------------------------------------------------ C37

MaxAdds == 3
MaxSeqLen == 2

\* The byte ranges of the sequences added, disjoint and in their order.
SeqRanges == <<[start |-> ByteA, end |-> ByteA], [start |-> ByteB, end |-> ByteB],
               [start |-> ByteLead2, end |-> ByteLead2]>>

ByteSequences == SeqsUpTo(RangeOf(SeqRanges), MaxSeqLen) \ {<<>>}

\* A machine that makes a Utf8Compiler, adds sequences of byte ranges to it
\* in any order and finishes it.
Utf8Init ==
    /\ hirs = <<>>
    /\ text = <<>>
    /\ ccfg = CfgTest
    /\ vcfg = VmConfigDefault
    /\ calls = <<>>
    /\ utf8c = [u |-> Utf8New(NewCompiler(CfgTest)), start |-> None]
    /\ compiler = NewCompiler(ConfigDefault)
    /\ earlier = <<>>
    /\ built = CompileResult("none", NfaEmpty)
    /\ pc = "new"
    /\ iter = [last_end |-> 0, last_match |-> None]
    /\ cache = NoCache
    /\ fr = NoFrame
    /\ m = None
    /\ ret = None
    /\ yielded = <<>>
    /\ none_seen = FALSE

\* utf8c.add(seq), while no add has failed and finish has not been called.
Utf8AddCall ==
    /\ utf8c.start = None
    /\ utf8c.u.c.err = "ok"
    /\ Len(calls) < MaxAdds
    /\ \E seq \in ByteSequences :
          /\ utf8c' = [utf8c EXCEPT !.u = Utf8Add(@, seq)]
          /\ calls' = Append(calls, seq)
    /\ UNCHANGED <<compiler, earlier, hirs, ccfg, vcfg, built, text, pc, iter,
                   cache, fr, m, ret, yielded, none_seen>>

\* utf8c.finish()
Utf8FinishCall ==
    /\ utf8c.start = None
    /\ utf8c.u.c.err = "ok"
    /\ calls # <<>>
    /\ LET r == Utf8Finish(utf8c.u)
       IN utf8c' = [u |-> [utf8c.u EXCEPT !.c = r.c], start |-> Some(r.start)]
    /\ UNCHANGED <<compiler, earlier, calls, hirs, ccfg, vcfg, built, text, pc,
                   iter, cache, fr, m, ret, yielded, none_seen>>

Utf8Spec == Utf8Init /\ [][Utf8AddCall \/ Utf8FinishCall]_vars

\* s comes before t in the order of the sequences of Utf8Sequences: at the
\* first place where they differ s has the lower range, and there is such
\* a place (neither is the other's beginning).
RECURSIVE SeqBefore(_, _)
SeqBefore(s, t) ==
    /\ s # <<>> /\ t # <<>>
    /\ \/ Head(s).end < Head(t).start
       \/ Head(s) = Head(t) /\ SeqBefore(Tail(s), Tail(t))

InOrder(seqs) == \A i \in 1..(Len(seqs) - 1) : SeqBefore(seqs[i], seqs[i + 1])

\* The transitions of a Sparse state are in the order of their bytes.
SortedSparse(bstates) ==
    \A sid \in 0..(Len(bstates) - 1) :
       At(bstates, sid).k = "Sparse" =>
          \A i, j \in 1..Len(At(bstates, sid).ranges) :
             i < j => At(bstates, sid).ranges[i].end
                          < At(bstates, sid).ranges[j].start

\* The sequences of ranges that lead from a state to the target of the
\* fragment, no longer than MaxSeqLen.
RECURSIVE PathsTo(_, _, _, _)
PathsTo(bstates, target, sid, fuel) ==
    LET s == At(bstates, sid)
        trans == CASE s.k = "Range" -> <<s.range>>
                   [] s.k = "Sparse" -> s.ranges
                   [] OTHER -> <<>>
    IN IF sid = target THEN {<<>>}
       ELSE IF fuel = 0 THEN {}
       ELSE UNION {{<<[start |-> trans[i].start, end |-> trans[i].end]>> \o rest :
                       rest \in PathsTo(bstates, target, trans[i].next, fuel - 1)} :
                      i \in 1..Len(trans)}

\* C37 as stated: when the sequences are added out of order, or one of them
\* repeats or begins the one before it, an add fails.
C37_OutOfOrderFails ==
    ~InOrder(calls) => utf8c.u.c.err # "ok"

\* C37: after sequences added in order, add fails, with a panic, exactly
\* when the sequence added is the one before it or a beginning of it; it
\* returns normally for every other sequence, one that comes before the
\* last one included.  When all the sequences are added in order, finish
\* gives a fragment whose Sparse states are sorted and that accepts the
\* sequences added and no others.
C37_AddFailsOnPrefixOnly ==
    /\ utf8c.u.c.err \in {"ok", "panic"}
    /\ (calls # <<>> /\ InOrder(Front(calls))) =>
          (utf8c.u.c.err = "panic"
              <=> /\ Len(calls) >= 2
                  /\ IsPrefixOf(calls[Len(calls)], calls[Len(calls) - 1]))
    /\ (utf8c.start # None /\ InOrder(calls)) =>
          /\ SortedSparse(utf8c.u.c.states)
          /\ PathsTo(utf8c.u.c.states, utf8c.u.target, Unwrap(utf8c.start),
                     MaxSeqLen) = RangeOf(calls)

\* [a][b] was added, then [a][b] again: the add has failed; [a][b] and
\* [a][c2] and [b] were added in order: the fragment accepts the three.
C37_Witness ==
    \/ /\ Len(calls) = 2 /\ calls[1] = calls[2] /\ Len(calls[1]) = 2
       /\ utf8c.u.c.err = "panic"
    \/ /\ Len(calls) = MaxAdds /\ InOrder(calls) /\ Len(calls[1]) = 2
       /\ utf8c.start # None
       /\ \E sid \in 0..(Len(utf8c.u.c.states) - 1) :
             At(utf8c.u.c.states, sid).k = "Sparse"

\* [b] was added and then [a]: no add has failed and the fragment finished
\* has a Sparse state with b before a; [a] was added and then [a][b]: the
\* fragment accepts [b] and not [a][b].
UnsortedSparse ==
    /\ utf8c.start # None
    /\ utf8c.u.c.err = "ok"
    /\ \/ /\ calls = <<<<SeqRanges[2]>>, <<SeqRanges[1]>>>>
          /\ ~SortedSparse(utf8c.u.c.states)
       \/ /\ calls = <<<<SeqRanges[1]>>, <<SeqRanges[1], SeqRanges[2]>>>>
          /\ PathsTo(utf8c.u.c.states, utf8c.u.target, Unwrap(utf8c.start),
                     MaxSeqLen) = {<<SeqRanges[1]>>, <<SeqRanges[2]>>}

\* ------------------------------------------------------------------ C38

\* Classes with encodings of two, three and four bytes; in the last the
\* reversed sequences [80-BF][C2-DF] and [83][98][E2] overlap at the first
\* place.
Greek == HirClassUnicode(<<ScalarRange(945, 948)>>)
TwoBytesAndSnowman ==
    HirClassUnicode(<<ScalarRange(128, 2047), ScalarRange(9731, 9731)>>)

\* The trees compiled forwards and in reverse.
ReverseTrees ==
    Atoms \cup Looks
    \cup {HirChar(945), HirConcat(<<HirChar(945), a>>),
          HirConcat(<<a, b, HirChar(945)>>),
          HirAlternation(<<a, ab>>), HirAlternation(<<ab, b>>),
          Rep(ZeroOrMore, TRUE, ab), Rep(OneOrMore, FALSE, ab),
          Rep(Bounded(1, 2), TRUE, ab), Rep(ZeroOrOne, TRUE, a),
          HirConcat(<<Rep(ZeroOrMore, TRUE, a), b>>),
          HirConcat(<<HirAnchor("StartLine"), b>>),
          HirConcat(<<a, HirAnchor("EndLine"), HirClassBytes(<<Utf8Range(10, 10)>>), b>>),
          Greek, LettersAndSnowman, GreekAndHands, TwoBytesAndSnowman,
          HirConcat(<<a, Greek>>), HirConcat(<<LettersAndSnowman, b>>),
          Rep(ZeroOrMore, TRUE, Greek)}

Forwards(cfg) == [cfg EXCEPT !.reverse = None]

\* A machine that builds a tree in reverse, with shrink and without.
ReverseInit ==
    /\ \E e \in ReverseTrees : hirs = <<e>>
    /\ text = <<>>
    /\ \E shrink \in {None, Some(FALSE), Some(TRUE)},
          utf8 \in {None, Some(FALSE)} :
          ccfg = [CfgTest EXCEPT !.reverse = Some(TRUE), !.shrink = shrink,
                                 !.utf8 = utf8]
    /\ vcfg = VmConfigDefault
    /\ calls = <<>>
    /\ utf8c = NoUtf8
    /\ compiler = NewCompiler(ConfigDefault)
    /\ earlier = <<>>
    /\ built = CompileResult("none", NfaEmpty)
    /\ pc = "new"
    /\ iter = [last_end |-> 0, last_match |-> None]
    /\ cache = NoCache
    /\ fr = NoFrame
    /\ m = None
    /\ ret = None
    /\ yielded = <<>>
    /\ none_seen = FALSE

ReverseSpec == ReverseInit /\ [][Build]_vars

\* One byte of every run of bytes that the transitions of the automaton do
\* not tell apart.
ByteCuts(nfa) ==
    LET trans == UNION {CASE nfa.states[i].k = "Range" -> {nfa.states[i].range}
                          [] nfa.states[i].k = "Sparse" -> RangeOf(nfa.states[i].ranges)
                          [] OTHER -> {} : i \in 1..Len(nfa.states)}
    IN {t.start : t \in trans} \cup {t.end + 1 : t \in trans}

TestBytes(one, other) ==
    {byte \in {0, 10, ByteA} \cup ByteCuts(one) \cup ByteCuts(other) : byte <= 255}

\* The longest word either automaton accepts when it has no loop, and a
\* length that goes round its loops.
TestLen(one, other) ==
    IF Cardinality(TestBytes(one, other)) > 8 THEN MaxWordLen - 1 ELSE MaxWordLen

\* C38: the automaton built in reverse accepts a word exactly when the
\* automaton built forwards from the same tree accepts the word reversed,
\* with shrink and without: for concatenations and the bytes of a literal
\* of several bytes, for look-arounds, for Unicode classes.
C38_ReverseAcceptsReversed ==
    pc = "built" =>
        LET forwards == Compile(Forwards(ccfg), hirs).nfa
            bytes == TestBytes(built.nfa, forwards)
        IN \A word \in SeqsUpTo(bytes, TestLen(built.nfa, forwards)) :
              Accepts(built.nfa, word) <=> Accepts(forwards, Reverse(word))

\* The literal of two bytes is built in reverse as its second byte and
\* then its first; the class of two-byte scalars and the snowman is built
\* with shrink, through the trie, and accepts the snowman reversed; ^b is
\* built with the look at the end of a line.
C38_Witness ==
    /\ pc = "built"
    /\ \/ /\ hirs = <<HirChar(945)>>
          /\ built.nfa.states = <<SRange(Transition(177, 177, 1)),
                                  SRange(Transition(206, 206, 2)), SMatch(0)>>
       \/ /\ hirs = <<TwoBytesAndSnowman>>
          /\ GetShrink(ccfg)
          /\ Accepts(built.nfa, <<131, 152, 226>>)
          /\ Accepts(built.nfa, <<131, 194>>)
          /\ ~Accepts(built.nfa, <<226, 152, 131>>)
       \/ /\ hirs = <<HirConcat(<<HirAnchor("StartLine"), b>>)>>
          /\ \E i \in 1..Len(built.nfa.states) :
                /\ built.nfa.states[i].k = "Look"
                /\ built.nfa.states[i].look = "EndLine"

\* ------------------------------------------------------------------ C39

\* Classes whose states are Sparse: two ranges of bytes, two ranges of
\* ASCII scalars, and two signs whose encodings part at the second byte.
TwoByteRanges == HirClassBytes(<<Utf8Range(97, 98), Utf8Range(100, 101)>>)
TwoAsciiRanges == HirClassUnicode(<<ScalarRange(97, 98), ScalarRange(100, 101)>>)
TwoSigns == HirClassUnicode(<<ScalarRange(9731, 9731), ScalarRange(9792, 9792)>>)

SparseClasses ==
    {TwoByteRanges, TwoAsciiRanges, TwoSigns, Greek, LettersAndSnowman,
     GreekAndHands, TwoBytesAndSnowman}

\* A class alone and in every place where the end of its fragment is
\* patched: in a concatenation, an alternation, a group, a repetition.
PatchTrees ==
    SparseClasses
    \cup {HirConcat(<<cls, a>>) : cls \in SparseClasses}
    \cup {HirConcat(<<a, cls>>) : cls \in SparseClasses}
    \cup {HirAlternation(<<cls, a>>) : cls \in {TwoByteRanges, TwoSigns}}
    \cup {Grp(1, cls) : cls \in {TwoByteRanges, TwoSigns}}
    \cup {Rep(rk, greedy, cls) :
             rk \in {ZeroOrOne, ZeroOrMore, OneOrMore, Bounded(1, 2)},
             greedy \in BOOLEAN, cls \in {TwoByteRanges, TwoSigns}}

PatchConfigs ==
    {CfgTest, CfgNoPrefix, CfgNoCaptures,
     [CfgTest EXCEPT !.reverse = Some(TRUE)],
     [CfgTest EXCEPT !.reverse = Some(TRUE), !.shrink = Some(TRUE)]}

PatchInit ==
    /\ \E e \in PatchTrees : hirs = <<e>>
    /\ ccfg \in PatchConfigs
    /\ text = <<>>
    /\ vcfg = VmConfigDefault
    /\ calls = <<>>
    /\ utf8c = NoUtf8
    /\ compiler = NewCompiler(ConfigDefault)
    /\ earlier = <<>>
    /\ built = CompileResult("none", NfaEmpty)
    /\ pc = "new"
    /\ iter = [last_end |-> 0, last_match |-> None]
    /\ cache = NoCache
    /\ fr = NoFrame
    /\ m = None
    /\ ret = None
    /\ yielded = <<>>
    /\ none_seen = FALSE

PatchSpec == PatchInit /\ [][Build]_vars

\* The states that are Sparse, and the states where the byte transitions
\* from a state stop: the first states that are not Range or Sparse.
SparseIds(bstates) ==
    {sid \in 0..(Len(bstates) - 1) : At(bstates, sid).k = "Sparse"}

RECURSIVE ByteEnds(_, _, _)
ByteEnds(bstates, sid, fuel) ==
    IF At(bstates, sid).k \notin {"Range", "Sparse"} \/ fuel = 0 THEN {sid}
    ELSE UNION {ByteEnds(bstates, t, fuel - 1) :
                   t \in RangeOf(CTargets(At(bstates, sid)))}

\* C39: a patch from a Sparse state fails with a panic and changes no
\* state; the compiler never issues one: no build fails with that panic,
\* and every Sparse state starts a fragment of byte transitions that all
\* end in one Empty state other than itself, which is the state the
\* compiler patches from. A patch from a Match state changes nothing.
C39_SparseNeverPatched ==
    pc \in {"built", "failed"} =>
        LET c == AtFinish.c
            ids == 0..(Len(c.states) - 1)
        IN /\ built.err # "panic"
           /\ c.err # "panic"
           /\ \A sid \in SparseIds(c.states) :
                 /\ \A to \in ids :
                       /\ Patch(c, sid, to).err = "panic"
                       /\ Patch(c, sid, to).states = c.states
                       /\ Patch(c, sid, to) = [c EXCEPT !.err = "panic"]
                 /\ \E end \in ids \ {sid} :
                       /\ ByteEnds(c.states, sid, Len(c.states)) = {end}
                       /\ At(c.states, end).k = "Empty"
           /\ \A sid \in ids :
                 At(c.states, sid).k = "Match" =>
                    \A to \in ids : Patch(c, sid, to) = c

\* The class of two byte ranges before a literal is built: its Sparse
\* state leads to the Empty state that was patched to the literal. The
\* two signs are built forwards with a Sparse state for their second
\* bytes, which is not the first state of the class.
C39_Witness ==
    /\ pc = "built"
    /\ built.err = "ok"
    /\ LET bstates == AtFinish.c.states
       IN \/ /\ hirs = <<HirConcat(<<TwoByteRanges, a>>)>>
             /\ \E sid \in SparseIds(bstates) :
                   \E end \in ByteEnds(bstates, sid, Len(bstates)) :
                      /\ At(bstates, end).k = "Empty"
                      /\ At(bstates, At(bstates, end).next).k = "Range"
                      /\ Patch(AtFinish.c, sid, end).err = "panic"
          \/ /\ hirs = <<TwoSigns>>
             /\ ~GetReverse(ccfg)
             /\ \E sid \in SparseIds(bstates), from \in 0..(Len(bstates) - 1) :
                   /\ At(bstates, from).k = "Range"
                   /\ At(bstates, from).range.next = sid

====
